---- MODULE Spec2Model ----
(***************************************************************************)
(* Model of the Druid v9 segment decoder (druid-datafusion-bridge).        *)
(*                                                                         *)
(* A byte is a number in 0..255 and a buffer is a sequence of bytes.  The  *)
(* parsers are operators over buffers, written as the Rust code computes   *)
(* them; every operator returns a result record                            *)
(*     [tag |-> "Ok", val |-> v]                                           *)
(*     [tag |-> "Err", kind |-> <DruidSegmentError variant>, arg |-> n]    *)
(*     [tag |-> "Panic"]                                                   *)
(* where Panic is a Rust panic (slice index out of range, arithmetic       *)
(* overflow in a build with overflow checks, capacity overflow).           *)
(*                                                                         *)
(* TLC integers are 32 bits wide.  An i32 is an integer.  A usize is held  *)
(* in a signed view: v >= 0 stands for v and v < 0 stands for 2^64 + v     *)
(* (what `i32 as usize` produces by sign extension), with comparisons and  *)
(* overflow computed for the unsigned value.  An i64 (and the bit pattern  *)
(* of an f64) is held as four 16-bit limbs <<w3, w2, w1, w0>>, w3 signed,  *)
(* standing for w3*2^48 + w2*2^32 + w1*2^16 + w0; the bit pattern of an    *)
(* f32 as two unsigned 16-bit limbs.                                       *)
(***************************************************************************)
EXTENDS Integers, Sequences, FiniteSets, TLC

VARIABLES
    build,   \* "debug" (overflow checks on) or "release" (wrapping arithmetic)
    src,     \* what the input buffer of a parser run was encoded from
    buf,     \* the input buffer handed to a parser
    obj,     \* the parsed reader object (result of from_bytes)
    out,     \* the result of the last operation on the parser / reader
    dir,     \* the segment directory on disk
    seg,     \* the DruidSegment value returned by open (or none)
    ret,     \* the result of the last call on the segment facade
    calls    \* per thread sharing the segment: its call in progress or its result

vars == <<build, src, buf, obj, out, dir, seg, ret, calls>>

Byte == 0..255

Ok(v) == [tag |-> "Ok", val |-> v]
Err(kind, arg) == [tag |-> "Err", kind |-> kind, arg |-> arg]
ErrName(kind, name) == [tag |-> "Err", kind |-> kind, name |-> name]
Panic == [tag |-> "Panic"]
None == [tag |-> "None"]

IsOk(r) == r.tag = "Ok"
IsErr(r, kind) == r.tag = "Err" /\ r.kind = kind

\* the `?` operator: an error (or a panic) ends the function, a value goes on
Try(r, F(_)) == IF ~IsOk(r) THEN r ELSE F(r.val)

\* `let v = ...;` followed by the rest of the function
Let(v, F(_)) == F(v)

\* Option<T>
Some(v) == [some |-> TRUE, v |-> v]
Absent == [some |-> FALSE, v |-> <<>>]

\* &data[a..b] for 0 <= a <= b <= Len(data)
Slice(data, a, b) == SubSeq(data, a + 1, b)

RECURSIVE Concat(_)
Concat(seqs) == IF seqs = <<>> THEN <<>> ELSE Head(seqs) \o Concat(Tail(seqs))

Min(a, b) == IF a < b THEN a ELSE b

----------------------------------------------------------------------------
(* usize arithmetic in the signed view *)

UsizeLess(a, b) == IF (a < 0) = (b < 0) THEN a < b ELSE b < 0
UsizeGreater(a, b) == UsizeLess(b, a)
AddOverflows(a, b) == (a < 0 /\ b < 0) \/ ((a < 0 \/ b < 0) /\ a + b >= 0)
MulOverflows(a, k) == a < 0 /\ k > 1
\* an overflowing operation panics under overflow checks and wraps otherwise
Panics(overflows) == build = "debug" /\ overflows

----------------------------------------------------------------------------
(* byteorder::ReadBytesExt, BigEndian *)

\* read_i32 at byte offset pos (pos + 4 <= Len(data))
read_i32(data, pos) ==
    LET b0 == data[pos + 1]
    IN (IF b0 >= 128 THEN b0 - 256 ELSE b0) * 16777216
       + data[pos + 2] * 65536 + data[pos + 3] * 256 + data[pos + 4]

read_u16(data, pos) == data[pos + 1] * 256 + data[pos + 2]

\* read_i64 / read_f64 at byte offset pos (pos + 8 <= Len(data)), as limbs
read_i64(data, pos) ==
    LET w3 == read_u16(data, pos)
    IN << IF w3 >= 32768 THEN w3 - 65536 ELSE w3,
          read_u16(data, pos + 2), read_u16(data, pos + 4), read_u16(data, pos + 6) >>

\* read_f32 at byte offset pos (pos + 4 <= Len(data)), as limbs of the bits
read_f32(data, pos) == << read_u16(data, pos), read_u16(data, pos + 2) >>

----------------------------------------------------------------------------
(* core::str::from_utf8: the bytes are kept, the encoding is validated *)

IsCont(b) == b >= 128 /\ b <= 191

RECURSIVE Utf8From(_, _)
Utf8From(s, i) ==
    IF i > Len(s) THEN TRUE
    ELSE LET b == s[i]
             has(n) == i + n <= Len(s)
         IN IF b < 128 THEN Utf8From(s, i + 1)
            ELSE IF b >= 194 /\ b <= 223
                 THEN has(1) /\ IsCont(s[i + 1]) /\ Utf8From(s, i + 2)
            ELSE IF b >= 224 /\ b <= 239
                 THEN /\ has(2)
                      /\ IsCont(s[i + 1]) /\ IsCont(s[i + 2])
                      /\ (b = 224 => s[i + 1] >= 160)
                      /\ (b = 237 => s[i + 1] <= 159)
                      /\ Utf8From(s, i + 3)
            ELSE IF b >= 240 /\ b <= 244
                 THEN /\ has(3)
                      /\ IsCont(s[i + 1]) /\ IsCont(s[i + 2]) /\ IsCont(s[i + 3])
                      /\ (b = 240 => s[i + 1] >= 144)
                      /\ (b = 244 => s[i + 1] <= 143)
                      /\ Utf8From(s, i + 4)
            ELSE FALSE

from_utf8(bytes) == Utf8From(bytes, 1)

----------------------------------------------------------------------------
(* compression/mod.rs *)

\* CompressionStrategy::from_id
from_id(id) ==
    CASE id = 0 -> Ok("Lzf")
      [] id = 1 -> Ok("Lz4")
      [] id = 2 -> Ok("Zstd")
      [] id = 255 -> Ok("Uncompressed")
      [] id = 254 -> Ok("None")
      [] OTHER -> Err("UnsupportedCompression", id)

\* LZ4 block format, variable-length integer: <<complete, value, next position>>
RECURSIVE lz4_read_integer(_, _)
lz4_read_integer(input, p) ==
    IF p >= Len(input) THEN <<FALSE, 0, p>>
    ELSE IF input[p + 1] = 255
         THEN LET r == lz4_read_integer(input, p + 1) IN <<r[1], 255 + r[2], r[3]>>
         ELSE <<TRUE, input[p + 1], p + 1>>

\* LZ4 match copy: n bytes from `offset` bytes back, overlapping
RECURSIVE lz4_copy_match(_, _, _)
lz4_copy_match(o, offset, n) ==
    IF n = 0 THEN o ELSE lz4_copy_match(Append(o, o[Len(o) - offset + 1]), offset, n - 1)

\* lz4_flex::block::decompress(input, min_uncompressed_size): the sequences of
\* an LZ4 block are decoded into a buffer of capacity `cap`, which is truncated
\* to the bytes actually produced.  Every failure is a DecompressError.
RECURSIVE lz4_decompress_from(_, _, _, _)
lz4_decompress_from(input, p, o, cap) ==
    IF p >= Len(input) THEN Err("DecompressionError", 0)
    ELSE LET token == input[p + 1]
             litExt == IF token \div 16 = 15 THEN lz4_read_integer(input, p + 1)
                       ELSE <<TRUE, 0, p + 1>>
             litLen == (token \div 16) + litExt[2]
             p1 == litExt[3]
         IN IF ~litExt[1] \/ litLen > Len(input) - p1 \/ litLen > cap - Len(o)
            THEN Err("DecompressionError", 0)
            ELSE LET o1 == o \o Slice(input, p1, p1 + litLen)
                     p2 == p1 + litLen
                 IN IF p2 >= Len(input) THEN Ok(o1)
                    ELSE IF p2 + 2 > Len(input) THEN Err("DecompressionError", 0)
                    ELSE LET offset == input[p2 + 1] + 256 * input[p2 + 2]
                             mExt == IF token % 16 = 15 THEN lz4_read_integer(input, p2 + 2)
                                     ELSE <<TRUE, 0, p2 + 2>>
                             matchLen == 4 + (token % 16) + mExt[2]
                         IN IF \/ ~mExt[1]
                               \/ offset = 0 \/ offset > Len(o1)
                               \/ matchLen > cap - Len(o1)
                            THEN Err("DecompressionError", 0)
                            ELSE lz4_decompress_from(input, mExt[3],
                                     lz4_copy_match(o1, offset, matchLen), cap)

lz4_decompress(input, min_uncompressed_size) ==
    lz4_decompress_from(input, 0, <<>>, min_uncompressed_size)

\* decompress_block with the ids of the two unimplemented codecs exchanged
decompress_block_ids_exchanged(strategy, compressed, decompressed_size) ==
    CASE strategy = "Lz4" -> lz4_decompress(compressed, decompressed_size)
      [] strategy \in {"Uncompressed", "None"} -> Ok(compressed)
      [] strategy = "Lzf" -> Err("UnsupportedCompression", 2)
      [] strategy = "Zstd" -> Err("UnsupportedCompression", 0)

\* decompress_block(strategy, compressed, decompressed_size)
decompress_block(strategy, compressed, decompressed_size) ==
    CASE strategy = "Lz4" -> lz4_decompress(compressed, decompressed_size)
      [] strategy \in {"Uncompressed", "None"} -> Ok(compressed)
      [] strategy = "Lzf" -> Err("UnsupportedCompression", 0)
      [] strategy = "Zstd" -> Err("UnsupportedCompression", 2)

----------------------------------------------------------------------------
(* column/generic_indexed.rs *)

VERSION_V1 == 1

\* from_bytes looking at the header length before the version byte
GenericIndexedV1_from_bytes_length_first(data) ==
    IF Len(data) < 10 THEN Err("InvalidData", 0)
    ELSE IF data[1] # VERSION_V1 THEN Err("InvalidGenericIndexedVersion", data[1])
    ELSE IF Panics(MulOverflows(read_i32(data, 6), 4))
            \/ Panics(AddOverflows(10, read_i32(data, 6) * 4))
    THEN Panic
    ELSE Ok([data |-> data,
             num_elements |-> read_i32(data, 6),
             header_size |-> 10,
             values_start |-> 10 + read_i32(data, 6) * 4])

\* GenericIndexedV1::from_bytes
GenericIndexedV1_from_bytes(data) ==
    IF Len(data) = 0 THEN Err("InvalidData", 0)
    ELSE IF data[1] # VERSION_V1 THEN Err("InvalidGenericIndexedVersion", data[1])
    ELSE IF Len(data) < 10 THEN Err("InvalidData", 0)
    ELSE LET num_elements == read_i32(data, 6)
             header_size == 10
             offsets_size == num_elements * 4
         IN IF Panics(MulOverflows(num_elements, 4))
               \/ Panics(AddOverflows(header_size, offsets_size))
            THEN Panic
            ELSE Ok([data |-> data,
                     num_elements |-> num_elements,
                     header_size |-> header_size,
                     values_start |-> header_size + offsets_size])

\* GenericIndexedV1::len
GenericIndexedV1_len(gi) == gi.num_elements

\* GenericIndexedV1::offset_at
offset_at(gi, i) ==
    LET pos == gi.header_size + i * 4
    IN IF Panics(MulOverflows(i, 4)) \/ Panics(AddOverflows(gi.header_size, i * 4))
          \/ Panics(AddOverflows(pos, 4))
       THEN Panic
       ELSE IF UsizeGreater(pos + 4, Len(gi.data)) THEN Err("InvalidData", 0)
       ELSE IF UsizeGreater(pos, Len(gi.data)) THEN Panic
       ELSE Ok(read_i32(gi.data, pos))

\* GenericIndexedV1::element_range
range_of(start, end) ==
    IF ~IsOk(start) THEN start
    ELSE IF ~IsOk(end) THEN end
    ELSE Ok(<<start.val, end.val>>)

\* element_range letting the index len() through
element_range_through_len(gi, i) ==
    IF UsizeGreater(i, gi.num_elements) THEN Err("InvalidData", 0)
    ELSE range_of(IF i = 0 THEN Ok(0) ELSE offset_at(gi, i - 1), offset_at(gi, i))

element_range(gi, i) ==
    IF ~UsizeLess(i, gi.num_elements) THEN Err("InvalidData", 0)
    ELSE range_of(IF i = 0 THEN Ok(0) ELSE offset_at(gi, i - 1), offset_at(gi, i))

\* the common head of get and get_raw: the element's absolute byte range
absolute_range(gi, range) ==
    IF ~IsOk(range) THEN range
    ELSE LET abs_start == gi.values_start + range.val[1]
             abs_end == gi.values_start + range.val[2]
         IN IF Panics(AddOverflows(gi.values_start, range.val[1]))
               \/ Panics(AddOverflows(gi.values_start, range.val[2]))
            THEN Panic
            ELSE IF UsizeGreater(abs_end, Len(gi.data)) THEN Err("InvalidData", 0)
            ELSE IF UsizeGreater(abs_start, abs_end) THEN Panic
            ELSE Ok(<<abs_start, abs_end>>)

element_bytes(gi, index) == absolute_range(gi, element_range(gi, index))

\* get with an empty element taken for a null one
length_prefixed_at_empty_is_null(gi, r) ==
    IF ~IsOk(r) THEN r
    ELSE IF r.val[2] - r.val[1] < 4 THEN Err("InvalidData", 0)
    ELSE IF read_i32(gi.data, r.val[1]) <= 0 THEN Ok(Absent)
    ELSE IF r.val[1] + 4 + read_i32(gi.data, r.val[1]) > Len(gi.data)
    THEN Err("InvalidData", 0)
    ELSE Ok(Some(Slice(gi.data, r.val[1] + 4, r.val[1] + 4 + read_i32(gi.data, r.val[1]))))

\* GenericIndexedV1::get: the length-prefixed element convention
length_prefixed_at(gi, r) ==
    IF ~IsOk(r) THEN r
    ELSE LET abs_start == r.val[1]
             abs_end == r.val[2]
         IN IF abs_end - abs_start < 4 THEN Err("InvalidData", 0)
            ELSE LET length == read_i32(gi.data, abs_start)
                     value_start == abs_start + 4
                 IN IF length < 0 THEN Ok(Absent)
                    ELSE IF value_start + length > Len(gi.data) THEN Err("InvalidData", 0)
                    ELSE Ok(Some(Slice(gi.data, value_start, value_start + length)))

GenericIndexedV1_get(gi, index) == length_prefixed_at(gi, element_bytes(gi, index))

\* GenericIndexedV1::get_raw
raw_at(gi, r) == IF ~IsOk(r) THEN r ELSE Ok(Slice(gi.data, r.val[1], r.val[2]))

get_raw(gi, index) == raw_at(gi, element_bytes(gi, index))

\* get_object_string giving the empty string for an empty remainder
object_string_of_empty_remainder(raw) ==
    IF ~IsOk(raw) THEN raw
    ELSE IF Len(raw.val) < 4 THEN Err("InvalidData", 0)
    ELSE IF Slice(raw.val, 0, 4) # <<0, 0, 0, 0>> THEN Err("InvalidData", 0)
    ELSE IF ~from_utf8(Slice(raw.val, 4, Len(raw.val))) THEN Err("InvalidData", 0)
    ELSE Ok(Some(Slice(raw.val, 4, Len(raw.val))))

\* GenericIndexedV1::get_object_string: the object-prefixed element convention
object_string_of(raw) ==
    IF ~IsOk(raw) THEN raw
    ELSE IF Len(raw.val) < 4 THEN Err("InvalidData", 0)
    ELSE IF Slice(raw.val, 0, 4) # <<0, 0, 0, 0>> THEN Err("InvalidData", 0)
    ELSE IF Len(raw.val) = 4 THEN Ok(Absent)
    ELSE IF ~from_utf8(Slice(raw.val, 4, Len(raw.val))) THEN Err("InvalidData", 0)
    ELSE Ok(Some(Slice(raw.val, 4, Len(raw.val))))

get_object_string(gi, index) == object_string_of(get_raw(gi, index))

\* GenericIndexedV1::get_str
str_of(r) ==
    IF ~IsOk(r) THEN r
    ELSE IF ~r.val.some THEN Ok(Absent)
    ELSE IF ~from_utf8(r.val.v) THEN Err("InvalidData", 0)
    ELSE Ok(Some(r.val.v))

get_str(gi, index) == str_of(GenericIndexedV1_get(gi, index))

\* GenericIndexedV1::total_size
size_up_to(gi, last_offset) ==
    IF ~IsOk(last_offset) THEN last_offset
    ELSE IF Panics(AddOverflows(gi.values_start, last_offset.val)) THEN Panic
    ELSE Ok(gi.values_start + last_offset.val)

\* total_size reading the end offset of the first element
GenericIndexedV1_total_size_first_element(gi) ==
    IF gi.num_elements = 0 THEN Ok(gi.values_start)
    ELSE size_up_to(gi, offset_at(gi, 0))

GenericIndexedV1_total_size(gi) ==
    IF gi.num_elements = 0 THEN Ok(gi.values_start)
    ELSE size_up_to(gi, offset_at(gi, gi.num_elements - 1))

----------------------------------------------------------------------------
(* column/compressed_longs.rs, compressed_doubles.rs, compressed_ints.rs *)

\* the tail of every from_bytes: the codec, the block container, the reader
reader_of(total_size, size_per, num_bytes, compression, blocks) ==
    IF ~IsOk(compression) THEN compression
    ELSE IF ~IsOk(blocks) THEN blocks
    ELSE Ok([total_size |-> total_size,
             size_per |-> size_per,
             num_bytes |-> num_bytes,
             compression |-> compression.val,
             blocks |-> blocks.val])

block_reader(data, total_size, size_per, num_bytes, compression, blocks_offset) ==
    reader_of(total_size, size_per, num_bytes, compression,
              GenericIndexedV1_from_bytes(Slice(data, blocks_offset, Len(data))))

\* from_bytes of longs reading a codec byte under version 1 as under version 2
CompressedColumnarLongs_from_bytes_codec_byte_in_v1(data) ==
    IF Len(data) < 10 THEN Err("InvalidData", 0)
    ELSE IF data[1] \in {1, 2}
    THEN IF Len(data) < 11 THEN Err("InvalidData", 0)
         ELSE block_reader(data, read_i32(data, 1), read_i32(data, 5), 8,
                           from_id(data[10]), 10)
    ELSE Err("InvalidData", 0)

\* CompressedColumnarLongs::from_bytes
CompressedColumnarLongs_from_bytes(data) ==
    IF Len(data) < 10 THEN Err("InvalidData", 0)
    ELSE IF data[1] = 1
    THEN block_reader(data, read_i32(data, 1), read_i32(data, 5), 8, Ok("Lzf"), 9)
    ELSE IF data[1] = 2
    THEN IF Len(data) < 11 THEN Err("InvalidData", 0)
         ELSE block_reader(data, read_i32(data, 1), read_i32(data, 5), 8,
                           from_id(data[10]), 10)
    ELSE Err("InvalidData", 0)

\* CompressedColumnarDoubles::from_bytes
CompressedColumnarDoubles_from_bytes(data) ==
    IF Len(data) < 11 THEN Err("InvalidData", 0)
    ELSE IF data[1] # 2 THEN Err("InvalidData", 0)
    ELSE block_reader(data, read_i32(data, 1), read_i32(data, 5), 8,
                      from_id(data[10]), 10)

\* CompressedColumnarFloats::from_bytes
CompressedColumnarFloats_from_bytes(data) ==
    IF Len(data) < 11 THEN Err("InvalidData", 0)
    ELSE IF data[1] # 2 THEN Err("InvalidData", 0)
    ELSE block_reader(data, read_i32(data, 1), read_i32(data, 5), 4,
                      from_id(data[10]), 10)

\* CompressedColumnarInts::from_bytes
CompressedColumnarInts_from_bytes(data) ==
    IF Len(data) < 11 THEN Err("InvalidData", 0)
    ELSE IF data[1] # 2 THEN Err("InvalidData", 0)
    ELSE IF data[10] = 0 \/ data[10] > 4 THEN Err("InvalidData", 0)
    ELSE block_reader(data, read_i32(data, 1), read_i32(data, 5), data[10],
                      from_id(data[11]), 11)

\* the big-endian unsigned integer of the n bytes at offset off: (value << 8) | b
RECURSIVE read_uint(_, _, _)
read_uint(bytes, off, n) ==
    IF n = 0 THEN 0 ELSE read_uint(bytes, off, n - 1) * 256 + bytes[off + n]

\* the element loop of one block: `count` values read from the decompressed
\* bytes.  Longs, doubles and floats read through a cursor (a short buffer is
\* an io error); ints index the buffer (a short buffer is a panic).
block_values(flavor, decompressed, count, num_bytes) ==
    IF count * num_bytes > Len(decompressed)
    THEN IF flavor = "ints" THEN Panic ELSE Err("Io", 0)
    ELSE Ok([i \in 1..count |->
                CASE flavor \in {"longs", "doubles"} -> read_i64(decompressed, (i - 1) * 8)
                  [] flavor = "floats" -> read_f32(decompressed, (i - 1) * 4)
                  [] flavor = "ints" -> read_uint(decompressed, (i - 1) * num_bytes, num_bytes)])

\* the block loop of decompress_all, from block_idx on, `result` decoded so far
RECURSIVE decompress_from(_, _, _, _)

\* ... the values of the block are appended and the loop goes on
next_block(flavor, cc, block_idx, result, values) ==
    IF ~IsOk(values) THEN values
    ELSE decompress_from(flavor, cc, block_idx + 1, result \o values.val)

\* ... the decompressed bytes are read as `count` values
append_values(flavor, cc, block_idx, result, count, decompressed) ==
    IF ~IsOk(decompressed) THEN decompressed
    ELSE next_block(flavor, cc, block_idx, result,
                    block_values(flavor, decompressed.val, count, cc.num_bytes))

\* min(total_size, size_per), the elements already produced left out
values_in_block_of_total(cc, result) ==
    IF UsizeLess(cc.total_size, cc.size_per) THEN cc.total_size ELSE cc.size_per

\* every block taken for a full one
values_in_block_always_full(cc, result) == cc.size_per

\* ... min(remaining, size_per)
values_in_block(cc, result) ==
    IF UsizeLess(cc.total_size - Len(result), cc.size_per)
    THEN cc.total_size - Len(result) ELSE cc.size_per

\* ... the block is decompressed to values_in_block * num_bytes bytes
decode_block(flavor, cc, block_idx, result, block_data, count) ==
    IF ~IsOk(block_data) THEN block_data
    ELSE IF ~block_data.val.some THEN Err("InvalidData", 0)
    ELSE IF Panics(UsizeLess(cc.total_size, Len(result))) THEN Panic
    ELSE append_values(flavor, cc, block_idx, result, count,
             decompress_block(cc.compression, block_data.val.v, count * cc.num_bytes))

decompress_from(flavor, cc, block_idx, result) ==
    IF ~UsizeLess(block_idx, GenericIndexedV1_len(cc.blocks)) THEN Ok(result)
    ELSE decode_block(flavor, cc, block_idx, result,
                      GenericIndexedV1_get(cc.blocks, block_idx),
                      values_in_block(cc, result))

\* Vec::with_capacity(total_size) panics on a capacity above isize::MAX bytes
decompress_blocks(flavor, cc) ==
    IF cc.total_size < 0 THEN Panic ELSE decompress_from(flavor, cc, 0, <<>>)

\* CompressedColumnarLongs::decompress_all
CompressedColumnarLongs_decompress_all(cc) == decompress_blocks("longs", cc)

\* CompressedColumnarDoubles::decompress_all
CompressedColumnarDoubles_decompress_all(cc) == decompress_blocks("doubles", cc)

\* CompressedColumnarFloats::decompress_all
CompressedColumnarFloats_decompress_all(cc) == decompress_blocks("floats", cc)

\* CompressedColumnarInts::decompress_all
CompressedColumnarInts_decompress_all(cc) == decompress_blocks("ints", cc)

----------------------------------------------------------------------------
(* column/vsize_ints.rs *)

HEADER_SIZE == 6

\* VSizeColumnarInts::from_bytes.  A negative buffer size is a usize of at
\* least 2^63; its quotient by num_bytes stays above every buffer length and
\* every capacity, and is kept as the same negative (huge) value.
VSizeColumnarInts_from_bytes(data) ==
    IF Len(data) < HEADER_SIZE THEN Err("InvalidData", 0)
    ELSE IF data[1] # 0 THEN Err("InvalidData", 0)
    ELSE LET num_bytes == data[2]
             buffer_size == read_i32(data, 2)
         IN IF num_bytes = 0 \/ num_bytes > 4 THEN Err("InvalidData", 0)
            ELSE Ok([data |-> data,
                     num_bytes |-> num_bytes,
                     num_values |-> IF buffer_size < 0 THEN buffer_size
                                    ELSE buffer_size \div num_bytes,
                     values_offset |-> HEADER_SIZE])

\* VSizeColumnarInts::len
VSizeColumnarInts_len(vs) == vs.num_values

\* get taking every value for one byte wide when it locates it
VSizeColumnarInts_get_stride_of_one(vs, index) ==
    IF ~UsizeLess(index, vs.num_values) THEN Err("InvalidData", 0)
    ELSE IF vs.values_offset + index + vs.num_bytes > Len(vs.data) THEN Panic
    ELSE Ok(read_uint(vs.data, vs.values_offset + index, vs.num_bytes))

\* VSizeColumnarInts::get
VSizeColumnarInts_get(vs, index) ==
    IF ~UsizeLess(index, vs.num_values) THEN Err("InvalidData", 0)
    ELSE LET pos == vs.values_offset + index * vs.num_bytes
         IN IF pos + vs.num_bytes > Len(vs.data) THEN Panic
            ELSE Ok(read_uint(vs.data, pos, vs.num_bytes))

RECURSIVE to_vec_from(_, _, _)
to_vec_from(vs, i, values) ==
    IF ~UsizeLess(i, vs.num_values) THEN Ok(values)
    ELSE Try(VSizeColumnarInts_get(vs, i),
             LAMBDA v : to_vec_from(vs, i + 1, Append(values, v)))

\* VSizeColumnarInts::to_vec
to_vec(vs) == IF vs.num_values < 0 THEN Panic ELSE to_vec_from(vs, 0, <<>>)

----------------------------------------------------------------------------
(* column/string.rs *)

RECURSIVE resolve_from(_, _, _, _)
resolve_from(dictionary, ids, i, builder) ==
    IF i > Len(ids) THEN Ok(builder)
    ELSE Try(get_str(dictionary, ids[i]),
             LAMBDA value : resolve_from(dictionary, ids, i + 1, Append(builder, value)))

\* resolve_dictionary passing over the ids that the dictionary does not hold
resolve_dictionary_known_ids(dictionary, ids) ==
    resolve_from(dictionary,
                 SelectSeq(ids, LAMBDA id : UsizeLess(id, GenericIndexedV1_len(dictionary))),
                 1, <<>>)

\* resolve_dictionary
resolve_dictionary(dictionary, ids) == resolve_from(dictionary, ids, 1, <<>>)

\* the dictionary at data[offset..] and the offset of the id stream after it
dictionary_at(data, offset) ==
    Try(GenericIndexedV1_from_bytes(Slice(data, offset, Len(data))),
        LAMBDA dictionary :
    Try(GenericIndexedV1_total_size(dictionary),
        LAMBDA dict_size :
            IF Panics(AddOverflows(offset, dict_size)) THEN Panic
            ELSE IF UsizeGreater(offset + dict_size, Len(data)) THEN Panic
            ELSE Ok([dictionary |-> dictionary,
                     values_offset |-> offset + dict_size])))

\* read_string_v0
read_string_v0(data) ==
    Try(dictionary_at(data, 1),
        LAMBDA d :
    Try(VSizeColumnarInts_from_bytes(Slice(data, d.values_offset, Len(data))),
        LAMBDA encoded :
    Try(to_vec(encoded),
        LAMBDA ids : resolve_dictionary(d.dictionary, ids))))

\* read_string_v2
read_string_v2(data) ==
    IF Len(data) < 5 THEN Err("InvalidData", 0)
    ELSE Try(dictionary_at(data, 5),
             LAMBDA d :
         Try(CompressedColumnarInts_from_bytes(Slice(data, d.values_offset, Len(data))),
             LAMBDA encoded :
         Try(CompressedColumnarInts_decompress_all(encoded),
             LAMBDA ids : resolve_dictionary(d.dictionary, ids))))

\* read_string_v3: the feature mask is read and not inspected
read_string_v3(data) ==
    IF Len(data) < 5 THEN Err("InvalidData", 0)
    ELSE Try(dictionary_at(data, 5),
             LAMBDA d :
         Try(CompressedColumnarInts_from_bytes(Slice(data, d.values_offset, Len(data))),
             LAMBDA encoded :
         Try(CompressedColumnarInts_decompress_all(encoded),
             LAMBDA ids : resolve_dictionary(d.dictionary, ids))))

\* read_string_column
read_string_column(data) ==
    IF Len(data) = 0 THEN Err("InvalidData", 0)
    ELSE CASE data[1] = 0 -> read_string_v0(data)
           [] data[1] = 2 -> read_string_v2(data)
           [] data[1] = 3 -> read_string_v3(data)
           [] OTHER -> Err("InvalidData", 0)

----------------------------------------------------------------------------
(* segment/column_descriptor.rs, column/mod.rs *)

\* The JSON texts of ColumnDescriptor values that the model's column files
\* carry, with the value serde derives for each (valueType in upper case,
\* hasMultipleValues defaulting to false, parts required).
JsonDocuments ==
    {
      \* {"valueType":"LONG","parts":[]}
      [text |-> <<123, 34, 118, 97, 108, 117, 101, 84, 121, 112, 101, 34, 58, 34, 76, 79, 78, 71, 34, 44, 34, 112, 97, 114, 116, 115, 34, 58, 91, 93, 125>>,
       descriptor |-> [value_type |-> "Long", has_multiple_values |-> FALSE, parts |-> <<>>]],
      \* {"valueType":"FLOAT","parts":[]}
      [text |-> <<123, 34, 118, 97, 108, 117, 101, 84, 121, 112, 101, 34, 58, 34, 70, 76, 79, 65, 84, 34, 44, 34, 112, 97, 114, 116, 115, 34, 58, 91, 93, 125>>,
       descriptor |-> [value_type |-> "Float", has_multiple_values |-> FALSE, parts |-> <<>>]],
      \* {"valueType":"DOUBLE","parts":[]}
      [text |-> <<123, 34, 118, 97, 108, 117, 101, 84, 121, 112, 101, 34, 58, 34, 68, 79, 85, 66, 76, 69, 34, 44, 34, 112, 97, 114, 116, 115, 34, 58, 91, 93, 125>>,
       descriptor |-> [value_type |-> "Double", has_multiple_values |-> FALSE, parts |-> <<>>]],
      \* {"valueType":"STRING","parts":[]}
      [text |-> <<123, 34, 118, 97, 108, 117, 101, 84, 121, 112, 101, 34, 58, 34, 83, 84, 82, 73, 78, 71, 34, 44, 34, 112, 97, 114, 116, 115, 34, 58, 91, 93, 125>>,
       descriptor |-> [value_type |-> "String", has_multiple_values |-> FALSE, parts |-> <<>>]],
      \* {"valueType":"COMPLEX","parts":[]}
      [text |-> <<123, 34, 118, 97, 108, 117, 101, 84, 121, 112, 101, 34, 58, 34, 67, 79, 77, 80, 76, 69, 88, 34, 44, 34, 112, 97, 114, 116, 115, 34, 58, 91, 93, 125>>,
       descriptor |-> [value_type |-> "Complex", has_multiple_values |-> FALSE, parts |-> <<>>]],
      \* {"valueType":"STRING","hasMultipleValues":true,"parts":[]}
      [text |-> <<123, 34, 118, 97, 108, 117, 101, 84, 121, 112, 101, 34, 58, 34, 83, 84, 82, 73, 78, 71, 34, 44, 34, 104, 97, 115, 77, 117, 108, 116, 105, 112, 108, 101, 86, 97, 108, 117, 101, 115, 34, 58, 116, 114, 117, 101, 44, 34, 112, 97, 114, 116, 115, 34, 58, 91, 93, 125>>,
       descriptor |-> [value_type |-> "String", has_multiple_values |-> TRUE, parts |-> <<>>]],
      \* {"valueType":"LONG","hasMultipleValues":true,"parts":[]}
      [text |-> <<123, 34, 118, 97, 108, 117, 101, 84, 121, 112, 101, 34, 58, 34, 76, 79, 78, 71, 34, 44, 34, 104, 97, 115, 77, 117, 108, 116, 105, 112, 108, 101, 86, 97, 108, 117, 101, 115, 34, 58, 116, 114, 117, 101, 44, 34, 112, 97, 114, 116, 115, 34, 58, 91, 93, 125>>,
       descriptor |-> [value_type |-> "Long", has_multiple_values |-> TRUE, parts |-> <<>>]]
    }

\* serde_json::from_slice::<ColumnDescriptor>: a text of JsonDocuments gives
\* its descriptor; the other texts the model produces ("{}", a cut text) lack
\* a required field or are not JSON.
serde_json_from_slice(json_bytes) ==
    IF \E d \in JsonDocuments : d.text = json_bytes
    THEN Ok((CHOOSE d \in JsonDocuments : d.text = json_bytes).descriptor)
    ELSE Err("JsonError", 0)

\* parse_column_header
parse_column_header(data) ==
    IF Len(data) < 4 THEN Err("InvalidData", 0)
    ELSE LET json_len == read_i32(data, 0)
         IN IF Panics(AddOverflows(4, json_len)) THEN Panic
            ELSE IF UsizeLess(Len(data), 4 + json_len) THEN Err("InvalidData", 0)
            ELSE IF UsizeLess(4 + json_len, 4) THEN Panic
            ELSE Try(serde_json_from_slice(Slice(data, 4, 4 + json_len)),
                     LAMBDA descriptor :
                         Ok([descriptor |-> descriptor,
                             remaining |-> Slice(data, 4 + json_len, Len(data))]))

\* "__time"
TIME_COLUMN == <<95, 95, 116, 105, 109, 101>>

\* an Arrow array: its data type and its values
Array(type, values) == [type |-> type, values |-> values]

\* read_time_column
read_time_column(data) ==
    Try(CompressedColumnarLongs_from_bytes(data),
        LAMBDA longs :
    Try(CompressedColumnarLongs_decompress_all(longs),
        LAMBDA values : Ok(Array("Timestamp", values))))

\* read_long_column
read_long_column(data) ==
    Try(CompressedColumnarLongs_from_bytes(data),
        LAMBDA longs :
    Try(CompressedColumnarLongs_decompress_all(longs),
        LAMBDA values : Ok(Array("Int64", values))))

\* read_float_column
read_float_column(data) ==
    Try(CompressedColumnarFloats_from_bytes(data),
        LAMBDA floats :
    Try(CompressedColumnarFloats_decompress_all(floats),
        LAMBDA values : Ok(Array("Float32", values))))

\* read_double_column
read_double_column(data) ==
    Try(CompressedColumnarDoubles_from_bytes(data),
        LAMBDA doubles :
    Try(CompressedColumnarDoubles_decompress_all(doubles),
        LAMBDA values : Ok(Array("Float64", values))))

\* the StringArray of read_string_column
read_string_array(data) ==
    Try(read_string_column(data), LAMBDA values : Ok(Array("Utf8", values)))

\* the match of read_column on (value_type, name), first arm first
column_array(descriptor, name, binary_data) ==
    CASE name = TIME_COLUMN -> read_time_column(binary_data)
      [] descriptor.value_type = "String" -> read_string_array(binary_data)
      [] descriptor.value_type = "Long" -> read_long_column(binary_data)
      [] descriptor.value_type = "Float" -> read_float_column(binary_data)
      [] descriptor.value_type = "Double" -> read_double_column(binary_data)
      [] OTHER -> Err("UnsupportedColumnType", 0)

\* read_column
read_column(name, data) ==
    Try(parse_column_header(data),
        LAMBDA header :
    Try(column_array(header.descriptor, name, header.remaining),
        LAMBDA array : Ok([descriptor |-> header.descriptor, array |-> array])))

----------------------------------------------------------------------------
(* segment/metadata.rs *)

\* the name loop of from_bytes: get_str on every index, a null name is an error
RECURSIVE names_from(_, _, _)
names_from(gi, i, names) ==
    IF ~UsizeLess(i, GenericIndexedV1_len(gi)) THEN Ok(names)
    ELSE Try(get_str(gi, i),
             LAMBDA name :
                 IF ~name.some THEN Err("InvalidData", 0)
                 ELSE names_from(gi, i + 1, Append(names, name.v)))

\* one name list of index.drd at data[offset..]: the names and the offset after
name_list_at(data, offset) ==
    IF UsizeGreater(offset, Len(data)) THEN Panic
    ELSE Try(GenericIndexedV1_from_bytes(Slice(data, offset, Len(data))),
             LAMBDA gi :
                 IF GenericIndexedV1_len(gi) < 0 THEN Panic
                 ELSE
         Try(names_from(gi, 0, <<>>),
             LAMBDA names :
         Try(GenericIndexedV1_total_size(gi),
             LAMBDA size :
                 IF Panics(AddOverflows(offset, size)) THEN Panic
                 ELSE Ok([names |-> names, offset |-> offset + size]))))

\* the interval of index.drd: two i64 at the offset after the name lists
interval_at(data, columns, dimensions, offset) ==
    IF Panics(AddOverflows(offset, 16)) THEN Panic
    ELSE IF UsizeLess(Len(data), offset + 16) THEN Err("InvalidData", 0)
    ELSE IF UsizeGreater(offset, Len(data)) THEN Panic
    ELSE Ok([columns |-> columns,
             dimensions |-> dimensions,
             interval_start_ms |-> read_i64(data, offset),
             interval_end_ms |-> read_i64(data, offset + 8)])

\* SegmentMetadata::from_bytes
SegmentMetadata_from_bytes(data) ==
    Try(name_list_at(data, 0),
        LAMBDA columns :
    Try(name_list_at(data, columns.offset),
        LAMBDA dimensions :
            interval_at(data, columns.names, dimensions.names, dimensions.offset)))

----------------------------------------------------------------------------
(* segment/version.rs *)

SEGMENT_VERSION_V9 == 9

\* read_version letting every version from 9 on through
read_version_from_9_on(data) ==
    IF Len(data) < 4 THEN Err("InvalidData", 0)
    ELSE IF read_i32(data, 0) < SEGMENT_VERSION_V9
    THEN Err("InvalidVersion", read_i32(data, 0))
    ELSE Ok(read_i32(data, 0))

\* read_version
read_version(data) ==
    IF Len(data) < 4 THEN Err("InvalidData", 0)
    ELSE LET version == read_i32(data, 0)
         IN IF version # SEGMENT_VERSION_V9 THEN Err("InvalidVersion", version)
            ELSE Ok(version)

----------------------------------------------------------------------------
(* segment/smoosh.rs.  A text file is its UTF-8 bytes. *)

COMMA == 44
NEWLINE == 10
CARRIAGE_RETURN == 13
\* char::is_whitespace on the ASCII range
IsWhitespace(b) == b \in {9, 10, 11, 12, 13, 32}

\* str::split(sep): the pieces between separators, at least one piece
RECURSIVE SplitFrom(_, _, _, _)
SplitFrom(text, sep, i, piece) ==
    IF i > Len(text) THEN <<piece>>
    ELSE IF text[i] = sep THEN <<piece>> \o SplitFrom(text, sep, i + 1, <<>>)
    ELSE SplitFrom(text, sep, i + 1, Append(piece, text[i]))

Split(text, sep) == SplitFrom(text, sep, 1, <<>>)

\* str::lines: lines end at "\n" or "\r\n"; a final line end adds no empty line
Lines(text) ==
    Let(Split(text, NEWLINE), LAMBDA pieces :
    Let(IF pieces[Len(pieces)] = <<>> THEN SubSeq(pieces, 1, Len(pieces) - 1) ELSE pieces,
        LAMBDA kept :
            [i \in 1..Len(kept) |->
                IF kept[i] # <<>> /\ kept[i][Len(kept[i])] = CARRIAGE_RETURN
                THEN SubSeq(kept[i], 1, Len(kept[i]) - 1) ELSE kept[i]]))

\* str::trim
RECURSIVE Trim(_)
Trim(text) ==
    IF text = <<>> THEN text
    ELSE IF IsWhitespace(text[1]) THEN Trim(Tail(text))
    ELSE IF IsWhitespace(text[Len(text)]) THEN Trim(SubSeq(text, 1, Len(text) - 1))
    ELSE text

IsDigit(b) == b >= 48 /\ b <= 57

RECURSIVE DigitsValue(_)
DigitsValue(digits) ==
    IF digits = <<>> THEN 0
    ELSE DigitsValue(SubSeq(digits, 1, Len(digits) - 1)) * 10 + (digits[Len(digits)] - 48)

\* "18446744073709551615", usize::MAX in decimal
USIZE_MAX_TEXT == <<49, 56, 52, 52, 54, 55, 52, 52, 48, 55, 51, 55, 48, 57, 53, 53, 49, 54, 49, 53>>

\* str::parse::<usize>: an optional "+", then one or more decimal digits.  A
\* number of up to 9 places is its value.  Of the numbers of 10 places and more
\* the model's texts hold usize::MAX, which is -1 in the signed view, and
\* numbers above it, which are a PosOverflow error.
parse_usize(text) ==
    LET digits == IF text # <<>> /\ text[1] = 43 THEN Tail(text) ELSE text
    IN IF digits = <<>> \/ \E i \in 1..Len(digits) : ~IsDigit(digits[i])
       THEN Err("InvalidSmooshMeta", 0)
       ELSE IF Len(digits) <= 9 THEN Ok(DigitsValue(digits))
       ELSE IF digits = USIZE_MAX_TEXT THEN Ok(-1)
       ELSE Err("InvalidSmooshMeta", 0)

\* BTreeMap::insert
MapInsert(map, key, value) ==
    [k \in DOMAIN map \cup {key} |-> IF k = key THEN value ELSE map[k]]

\* the entry lines of meta.smoosh, from line i on
RECURSIVE parse_entries(_, _, _)
parse_entries(lines, i, entries) ==
    IF i > Len(lines) THEN Ok(entries)
    ELSE Let(Trim(lines[i]), LAMBDA line :
         IF line = <<>> THEN parse_entries(lines, i + 1, entries)
         ELSE Let(Split(line, COMMA), LAMBDA parts :
              IF Len(parts) < 4 THEN Err("InvalidSmooshMeta", 0)
              ELSE Try(parse_usize(parts[2]), LAMBDA chunk_number :
                   Try(parse_usize(parts[3]), LAMBDA start_offset :
                   Try(parse_usize(parts[4]), LAMBDA end_offset :
                       parse_entries(lines, i + 1,
                           MapInsert(entries, parts[1],
                               [name |-> parts[1],
                                chunk_number |-> chunk_number,
                                start_offset |-> start_offset,
                                end_offset |-> end_offset])))))))

\* "v1"
V1 == <<118, 49>>

\* the chunk files of open: Vec::with_capacity(num_chunks) panics on a
\* capacity above isize::MAX bytes; chunk file i is opened and mapped for every
\* i below num_chunks, a file that does not exist ends open
mapped_chunks(d, entries, num_chunks) ==
    IF num_chunks < 0 THEN Panic
    ELSE IF num_chunks > Len(d.chunks) THEN Err("InvalidSmooshMeta", 0)
    ELSE Ok([entries |-> entries, mmaps |-> SubSeq(d.chunks, 1, num_chunks)])

\* open indexing the third field of the first line without counting the fields
SmooshReader_open_uncounted_fields(d) ==
    IF ~d.meta.some \/ ~from_utf8(d.meta.v) THEN Err("InvalidSmooshMeta", 0)
    ELSE Let(Lines(d.meta.v), LAMBDA lines :
         IF Len(lines) = 0 THEN Err("InvalidSmooshMeta", 0)
         ELSE Let(Split(lines[1], COMMA), LAMBDA header_parts :
              IF header_parts[1] # V1 THEN Err("InvalidSmooshMeta", 0)
              ELSE IF Len(header_parts) < 3 THEN Panic
              ELSE Try(parse_usize(Trim(header_parts[3])), LAMBDA num_chunks :
                   Try(parse_entries(lines, 2, <<>>), LAMBDA entries :
                       mapped_chunks(d, entries, num_chunks)))))

\* SmooshReader::open on a directory d: meta.smoosh is d.meta (absent when
\* the file does not exist) and chunk file i is d.chunks[i + 1]
SmooshReader_open(d) ==
    IF ~d.meta.some \/ ~from_utf8(d.meta.v) THEN Err("InvalidSmooshMeta", 0)
    ELSE Let(Lines(d.meta.v), LAMBDA lines :
         IF Len(lines) = 0 THEN Err("InvalidSmooshMeta", 0)
         ELSE Let(Split(lines[1], COMMA), LAMBDA header_parts :
              IF Len(header_parts) < 3 \/ header_parts[1] # V1
              THEN Err("InvalidSmooshMeta", 0)
              ELSE Try(parse_usize(Trim(header_parts[3])), LAMBDA num_chunks :
                   Try(parse_entries(lines, 2, <<>>), LAMBDA entries :
                       mapped_chunks(d, entries, num_chunks)))))

\* map_file returning the bytes at the start of the chunk
map_file_from_chunk_start(smoosh, name) ==
    IF name \notin DOMAIN smoosh.entries THEN ErrName("LogicalFileNotFound", name)
    ELSE IF ~UsizeLess(smoosh.entries[name].chunk_number, Len(smoosh.mmaps))
    THEN Err("InvalidSmooshMeta", 0)
    ELSE IF UsizeGreater(smoosh.entries[name].end_offset,
                         Len(smoosh.mmaps[smoosh.entries[name].chunk_number + 1]))
    THEN Err("InvalidSmooshMeta", 0)
    ELSE IF UsizeGreater(smoosh.entries[name].start_offset, smoosh.entries[name].end_offset)
    THEN Panic
    ELSE Ok(Slice(smoosh.mmaps[smoosh.entries[name].chunk_number + 1], 0,
                  smoosh.entries[name].end_offset - smoosh.entries[name].start_offset))

\* SmooshReader::map_file
map_file(smoosh, name) ==
    IF name \notin DOMAIN smoosh.entries THEN ErrName("LogicalFileNotFound", name)
    ELSE LET entry == smoosh.entries[name]
         IN IF ~UsizeLess(entry.chunk_number, Len(smoosh.mmaps))
            THEN Err("InvalidSmooshMeta", 0)
            ELSE LET mmap == smoosh.mmaps[entry.chunk_number + 1]
                 IN IF UsizeGreater(entry.end_offset, Len(mmap))
                    THEN Err("InvalidSmooshMeta", 0)
                    ELSE IF UsizeGreater(entry.start_offset, entry.end_offset) THEN Panic
                    ELSE Ok(Slice(mmap, entry.start_offset, entry.end_offset))

----------------------------------------------------------------------------
(* segment/mod.rs *)

\* "index.drd"
INDEX_DRD == <<105, 110, 100, 101, 120, 46, 100, 114, 100>>

\* druid_type_to_arrow going by the descriptor alone
druid_type_to_arrow_by_descriptor(descriptor, col_name) ==
    CASE descriptor.value_type = "String" -> "Utf8"
      [] descriptor.value_type = "Long" -> "Int64"
      [] descriptor.value_type = "Float" -> "Float32"
      [] descriptor.value_type = "Double" -> "Float64"
      [] descriptor.value_type = "Complex" -> "Binary"

\* druid_type_to_arrow
druid_type_to_arrow(descriptor, col_name) ==
    IF col_name = TIME_COLUMN THEN "Timestamp"
    ELSE CASE descriptor.value_type = "String" -> "Utf8"
           [] descriptor.value_type = "Long" -> "Int64"
           [] descriptor.value_type = "Float" -> "Float32"
           [] descriptor.value_type = "Double" -> "Float64"
           [] descriptor.value_type = "Complex" -> "Binary"

Field(name, type) == [name |-> name, type |-> type]

\* DruidSegment::build_schema, from column i on
RECURSIVE build_schema_from(_, _, _, _)
build_schema_from(smoosh, metadata, i, fields) ==
    IF i > Len(metadata.columns) THEN Ok(fields)
    ELSE Try(map_file(smoosh, metadata.columns[i]), LAMBDA col_data :
         Try(parse_column_header(col_data), LAMBDA header :
             build_schema_from(smoosh, metadata, i + 1,
                 Append(fields, Field(metadata.columns[i],
                     druid_type_to_arrow(header.descriptor, metadata.columns[i]))))))

build_schema(smoosh, metadata) == build_schema_from(smoosh, metadata, 1, <<>>)

\* DruidSegment::open on a directory d: version.bin is d.version
DruidSegment_open(d) ==
    IF ~d.version.some THEN Err("Io", 0)
    ELSE Try(read_version(d.version.v), LAMBDA version :
         Try(SmooshReader_open(d), LAMBDA smoosh :
         Try(map_file(smoosh, INDEX_DRD), LAMBDA index_data :
         Try(SegmentMetadata_from_bytes(index_data), LAMBDA metadata :
         Try(build_schema(smoosh, metadata), LAMBDA schema :
             Ok([smoosh |-> smoosh, metadata |-> metadata, schema |-> schema]))))))

\* RecordBatch::try_new(schema, arrays): the row count is the first column's
\* length; no column, a column of another length or of another type than its
\* field is an ArrowError
RecordBatch_try_new(fields, arrays) ==
    IF Len(arrays) = 0 THEN Err("ArrowError", 0)
    ELSE IF \E i \in 1..Len(arrays) :
               \/ Len(arrays[i].values) # Len(arrays[1].values)
               \/ arrays[i].type # fields[i].type
    THEN Err("ArrowError", 0)
    ELSE Ok([schema |-> fields, columns |-> arrays, num_rows |-> Len(arrays[1].values)])

\* the column loop of read_columns, from name i on
RECURSIVE read_columns_from(_, _, _, _, _)
read_columns_from(segment, columns, i, fields, arrays) ==
    IF i > Len(columns) THEN RecordBatch_try_new(fields, arrays)
    ELSE Try(map_file(segment.smoosh, columns[i]), LAMBDA col_data :
         Try(read_column(columns[i], col_data), LAMBDA column :
             read_columns_from(segment, columns, i + 1,
                 Append(fields, Field(columns[i],
                     druid_type_to_arrow(column.descriptor, columns[i]))),
                 Append(arrays, column.array))))

\* DruidSegment::read_columns
read_columns(segment, columns) == read_columns_from(segment, columns, 1, <<>>, <<>>)

\* DruidSegment::read_all
read_all(segment) == read_columns(segment, segment.metadata.columns)

\* DruidSegment::num_rows
num_rows(segment) ==
    Try(map_file(segment.smoosh, TIME_COLUMN), LAMBDA time_data :
    Try(read_column(TIME_COLUMN, time_data), LAMBDA column :
        Ok(Len(column.array.values))))

----------------------------------------------------------------------------
(* Writers of the binary formats: how the inputs of the parsers are built.   *)
(* byteorder::WriteBytesExt, BigEndian.                                      *)

\* write_i32
write_i32(v) ==
    LET top == IF v >= 0 THEN v \div 16777216
               ELSE 128 + ((v + 2147483647) + 1) \div 16777216
        rest == IF v >= 0 THEN v % 16777216 ELSE ((v + 2147483647) + 1) % 16777216
    IN <<top, rest \div 65536, (rest \div 256) % 256, rest % 256>>

write_u16(w) == <<w \div 256, w % 256>>

\* write_i64 of a value held as limbs
write_i64(v) ==
    write_u16(IF v[1] < 0 THEN v[1] + 65536 ELSE v[1])
        \o write_u16(v[2]) \o write_u16(v[3]) \o write_u16(v[4])

\* write_f32 of a bit pattern held as limbs
write_f32(v) == write_u16(v[1]) \o write_u16(v[2])

\* the n low bytes of v, most significant first (build_vsize_ints)
RECURSIVE write_uint(_, _)
write_uint(v, n) == IF n = 0 THEN <<>> ELSE write_uint(v \div 256, n - 1) \o <<v % 256>>

\* the cumulative end offsets of the payloads, as written
RECURSIVE end_offsets(_, _)
end_offsets(payloads, before) ==
    IF payloads = <<>> THEN <<>>
    ELSE write_i32(before + Len(Head(payloads)))
             \o end_offsets(Tail(payloads), before + Len(Head(payloads)))

\* a generic indexed v1 container over the given element payloads
\* (tests::build_generic_indexed after the elements are laid out)
generic_indexed_of(payloads) ==
    LET values == Concat(payloads)
    IN <<VERSION_V1, 1>>
         \o write_i32(Len(payloads) * 4 + Len(values))
         \o write_i32(Len(payloads))
         \o end_offsets(payloads, 0)
         \o values

\* the length-prefixed element: [length: i32][bytes], length -1 for null
length_prefixed(elem) ==
    IF elem.some THEN write_i32(Len(elem.v)) \o elem.v ELSE write_i32(-1)

\* the object-prefixed element: [4 zero bytes][string bytes]
object_prefixed(elem) == <<0, 0, 0, 0>> \o elem.v

\* tests::build_generic_indexed
build_generic_indexed(elements) ==
    generic_indexed_of([i \in 1..Len(elements) |-> length_prefixed(elements[i])])

\* a generic indexed container of object-prefixed strings
build_object_strings(elements) ==
    generic_indexed_of([i \in 1..Len(elements) |-> object_prefixed(elements[i])])

\* an LZ4 length: the nibble, and the bytes that extend a nibble of 15
lz4_nibble(n) == Min(n, 15)
RECURSIVE lz4_extension(_)
lz4_extension(n) == IF n >= 255 THEN <<255>> \o lz4_extension(n - 255) ELSE <<n>>
lz4_length_bytes(n) == IF n >= 15 THEN lz4_extension(n - 15) ELSE <<>>

\* one LZ4 sequence of literals only (the last sequence of a block)
lz4_literals(bytes) ==
    <<lz4_nibble(Len(bytes)) * 16>> \o lz4_length_bytes(Len(bytes)) \o bytes

\* an LZ4 block of the bytes: when the second 8 bytes repeat the first 8, the
\* first 4 of them are a match at offset 8, otherwise literals only
lz4_compress(bytes) ==
    IF Len(bytes) >= 16 /\ SubSeq(bytes, 9, 16) = SubSeq(bytes, 1, 8)
    THEN <<8 * 16 + 0>> \o SubSeq(bytes, 1, 8) \o <<8, 0>>
             \o lz4_literals(SubSeq(bytes, 13, Len(bytes)))
    ELSE lz4_literals(bytes)

\* the block bytes as stored under a codec id
compress_block(codec, bytes) == IF codec = 1 THEN lz4_compress(bytes) ELSE bytes

\* the values cut into blocks of `stride`, the last one possibly shorter
RECURSIVE chunks_of(_, _)
chunks_of(values, stride) ==
    IF values = <<>> THEN <<>>
    ELSE <<SubSeq(values, 1, Min(stride, Len(values)))>>
             \o chunks_of(SubSeq(values, Min(stride, Len(values)) + 1, Len(values)), stride)

\* one value as stored in a block
element_bytes_of(flavor, v, num_bytes) ==
    CASE flavor \in {"longs", "doubles"} -> write_i64(v)
      [] flavor = "floats" -> write_f32(v)
      [] flavor = "ints" -> write_uint(v, num_bytes)

\* the block container: one length-prefixed element per block, the last
\* `dropped` blocks left out
blocks_of(flavor, values, stride, num_bytes, codec, dropped) ==
    LET chunks == chunks_of(values, stride)
        kept == SubSeq(chunks, 1, Len(chunks) - Min(dropped, Len(chunks)))
    IN build_generic_indexed(
           [k \in 1..Len(kept) |->
               Some(compress_block(codec,
                   Concat([i \in 1..Len(kept[k]) |->
                              element_bytes_of(flavor, kept[k][i], num_bytes)])))])

\* a compressed block set as laid out in the readers' header comments
compressed_block_set(c) ==
    <<c.version>> \o write_i32(Len(c.values)) \o write_i32(c.stride)
        \o (IF c.flavor = "ints" THEN <<c.num_bytes>> ELSE <<>>)
        \o (IF c.version = 1 THEN <<>> ELSE <<c.codec>>)
        \o blocks_of(c.flavor, c.values, c.stride, c.num_bytes, c.codec, c.dropped)

\* tests::build_vsize_ints
build_vsize_ints(num_bytes, values) ==
    <<0, num_bytes>> \o write_i32(Len(values) * num_bytes)
        \o Concat([i \in 1..Len(values) |-> write_uint(values[i], num_bytes)])

\* a generic indexed container of strings under one of the two conventions
string_container(convention, elements) ==
    IF convention = "length" THEN build_generic_indexed(elements)
    ELSE build_object_strings(elements)

\* a dictionary-encoded string column payload as laid out in the header
\* comments of column/string.rs: version 0 carries a vsize id stream,
\* versions 2 and 3 a 4-byte flags / feature mask and a compressed id stream
string_payload(c) ==
    IF c.version = 0
    THEN <<0>> \o string_container(c.convention, c.dictionary)
             \o build_vsize_ints(c.num_bytes, c.ids)
    ELSE <<c.version>> \o write_i32(c.flags)
             \o string_container(c.convention, c.dictionary)
             \o compressed_block_set([version |-> 2, values |-> c.ids,
                                      stride |-> c.stride, flavor |-> "ints",
                                      num_bytes |-> c.num_bytes, codec |-> c.codec,
                                      dropped |-> 0])

\* index.drd as laid out in the header comment of segment/metadata.rs
index_drd(c) ==
    string_container(c.convention, [i \in 1..Len(c.columns) |-> Some(c.columns[i])])
        \o string_container(c.convention,
                            [i \in 1..Len(c.dimensions) |-> Some(c.dimensions[i])])
        \o write_i64(c.start) \o write_i64(c.end) \o c.trailing

\* the JSON text of a column descriptor
json_text(value_type, has_multiple_values) ==
    (CHOOSE d \in JsonDocuments :
        /\ d.descriptor.value_type = value_type
        /\ d.descriptor.has_multiple_values = has_multiple_values).text

\* a column file: [json_length: i32][json][binary payload]
column_file(value_type, has_multiple_values, payload) ==
    write_i32(Len(json_text(value_type, has_multiple_values)))
        \o json_text(value_type, has_multiple_values) \o payload

\* a number in decimal digits
RECURSIVE decimal(_)
decimal(n) == IF n < 10 THEN <<48 + n>> ELSE decimal(n \div 10) \o <<48 + (n % 10)>>

\* the entry lines of meta.smoosh for files laid one after another from `start`
RECURSIVE entry_lines(_, _)
entry_lines(files, start) ==
    IF files = <<>> THEN <<>>
    ELSE Head(files).name \o <<COMMA, 48, COMMA>> \o decimal(start)
             \o <<COMMA>> \o decimal(start + Len(Head(files).bytes)) \o <<NEWLINE>>
             \o entry_lines(Tail(files), start + Len(Head(files).bytes))

\* a smoosh archive of one chunk: "v1,2147483647,1", one line per file, and
\* 00000.smoosh holding the files one after another
smoosh_archive(files) ==
    [meta |-> Some(V1 \o <<COMMA>> \o decimal(2147483647) \o <<COMMA, 49, NEWLINE>>
                      \o entry_lines(files, 0)),
     chunks |-> <<Concat([i \in 1..Len(files) |-> files[i].bytes])>>]

File(name, bytes) == [name |-> name, bytes |-> bytes]

----------------------------------------------------------------------------
(* Bounds of the model and the input sets drawn from them *)

MaxBlockLen == 2    \* bytes of a block handed to decompress_block
MaxExpected == 2    \* expected decompressed size handed to decompress_block
MaxElems == 2       \* elements of a generic indexed container
MaxStrLen == 1      \* bytes of one element
MaxValues == 3      \* values of a compressed block set
MaxStride == 2      \* values per block
MaxDict == 2        \* entries of a string dictionary
MaxIds == 2         \* rows of a string column
MaxNames == 2       \* names of a name list, names of one read_columns call
MaxRows == 2        \* rows of a column of a segment
MaxLines == 2       \* entry lines of a meta.smoosh

Builds == {"debug", "release"}

\* "a", a column name, and "zz", a name that no segment and no archive holds
COLUMN_A == <<97>>
MISSING_COLUMN == <<122, 122>>

SeqsUpTo(S, n) == UNION {[1..k -> S] : k \in 0..n}

\* the parser variables while the segment facade runs, and the reverse
ParserIdle == src = None /\ buf = <<>> /\ obj = None /\ out = None
FacadeIdle == dir = None /\ seg = None /\ ret = None /\ calls = None

----------------------------------------------------------------------------
(* SpecCodec: CompressionStrategy::from_id, then decompress_block *)

\* block bytes: 0 and 16 are the LZ4 tokens "no literal" and "one literal"
CodecBytes == {0, 16, 65}

CodecInit ==
    /\ build \in Builds
    /\ src \in [kind : {"codec"}, id : Byte, expected : 0..MaxExpected]
    /\ buf \in SeqsUpTo(CodecBytes, MaxBlockLen)
    /\ obj = None /\ out = None
    /\ FacadeIdle

FromId ==
    /\ obj.tag = "None"
    /\ obj' = from_id(src.id)
    /\ UNCHANGED <<build, src, buf, out, dir, seg, ret, calls>>

DecompressBlock ==
    /\ IsOk(obj) /\ out.tag = "None"
    /\ out' = decompress_block(obj.val, buf, src.expected)
    /\ UNCHANGED <<build, src, buf, obj, dir, seg, ret, calls>>

CodecNext == FromId \/ DecompressBlock

SpecCodec == CodecInit /\ [][CodecNext]_vars

----------------------------------------------------------------------------
(* SpecGI: GenericIndexedV1::from_bytes, then the accessors *)

StrBytes == {97, 255}

GIStrings == SeqsUpTo(StrBytes, MaxStrLen)

\* elements under neither convention: no byte, 3 zero bytes, and a byte after
\* a 4-byte prefix that is not all zero
RawElements == {<<>>, <<0, 0, 0>>, <<0, 0, 1, 0, 97>>}

GISources ==
    [kind : {"gi"}, convention : {"length"},
     elements : SeqsUpTo({Absent} \cup {Some(b) : b \in GIStrings}, MaxElems)]
    \cup
    [kind : {"gi"}, convention : {"object"},
     elements : SeqsUpTo({Some(b) : b \in GIStrings}, MaxElems)]
    \cup
    [kind : {"gi"}, convention : {"raw"}, elements : SeqsUpTo(RawElements, MaxElems)]

\* the bytes of element i (from 1) of a source as they are written
element_written(s, i) ==
    CASE s.convention = "length" -> length_prefixed(s.elements[i])
      [] s.convention = "object" -> object_prefixed(s.elements[i])
      [] s.convention = "raw" -> s.elements[i]

GIEncode(s) == generic_indexed_of([i \in 1..Len(s.elements) |-> element_written(s, i)])

GIInit ==
    /\ build \in Builds
    /\ src \in GISources
    /\ buf = GIEncode(src)
    /\ obj = None /\ out = None
    /\ FacadeIdle

Call(op, index, res) == [op |-> op, index |-> index, res |-> res]

GIFromBytes ==
    /\ obj.tag = "None"
    /\ obj' = GenericIndexedV1_from_bytes(buf)
    /\ UNCHANGED <<build, src, buf, out, dir, seg, ret, calls>>

GIGet(i) ==
    /\ IsOk(obj) /\ out = None
    /\ out' = Call("get", i, GenericIndexedV1_get(obj.val, i))
    /\ UNCHANGED <<build, src, buf, obj, dir, seg, ret, calls>>

GIGetRaw(i) ==
    /\ IsOk(obj) /\ out = None
    /\ out' = Call("get_raw", i, get_raw(obj.val, i))
    /\ UNCHANGED <<build, src, buf, obj, dir, seg, ret, calls>>

GIGetObjectString(i) ==
    /\ IsOk(obj) /\ out = None
    /\ out' = Call("get_object_string", i, get_object_string(obj.val, i))
    /\ UNCHANGED <<build, src, buf, obj, dir, seg, ret, calls>>

GIGetStr(i) ==
    /\ IsOk(obj) /\ out = None
    /\ out' = Call("get_str", i, get_str(obj.val, i))
    /\ UNCHANGED <<build, src, buf, obj, dir, seg, ret, calls>>

GITotalSize ==
    /\ IsOk(obj) /\ out = None
    /\ out' = Call("total_size", 0, GenericIndexedV1_total_size(obj.val))
    /\ UNCHANGED <<build, src, buf, obj, dir, seg, ret, calls>>

GINext ==
    \/ GIFromBytes
    \/ \E i \in 0..MaxElems : GIGet(i)
    \/ \E i \in 0..MaxElems : GIGetRaw(i)
    \/ \E i \in 0..MaxElems : GIGetObjectString(i)
    \/ \E i \in 0..MaxElems : GIGetStr(i)
    \/ GITotalSize

SpecGI == GIInit /\ [][GINext]_vars

----------------------------------------------------------------------------
(* SpecPair: two generic indexed containers one after another in a buffer,   *)
(* the second found at the offset total_size() of the first, as the name     *)
(* lists of index.drd are                                                     *)

\* a first container of any kind and a second container of at most one element
PairSources ==
    [kind : {"pair"}, first : GISources,
     second : {s \in GISources : Len(s.elements) <= 1}]

PairInit ==
    /\ build \in Builds
    /\ src \in PairSources
    /\ buf = GIEncode(src.first) \o GIEncode(src.second)
    /\ obj = None /\ out = None
    /\ FacadeIdle

PairFromBytes ==
    /\ obj = None
    /\ obj' = GenericIndexedV1_from_bytes(buf)
    /\ UNCHANGED <<build, src, buf, out, dir, seg, ret, calls>>

PairTotalSize ==
    /\ IsOk(obj) /\ out = None
    /\ out' = Call("total_size", 0, GenericIndexedV1_total_size(obj.val))
    /\ UNCHANGED <<build, src, buf, obj, dir, seg, ret, calls>>

\* offset += gi.total_size()?; GenericIndexedV1::from_bytes(&data[offset..])
PairFromBytesAfter ==
    /\ out # None /\ IsOk(out.res) /\ ret = None
    /\ ret' = IF UsizeGreater(out.res.val, Len(buf)) THEN Panic
              ELSE GenericIndexedV1_from_bytes(Slice(buf, out.res.val, Len(buf)))
    /\ UNCHANGED <<build, src, buf, obj, out, dir, seg, calls>>

\* get_raw on the container found after the first
PairGetRaw(i) ==
    /\ IsOk(ret) /\ calls = None
    /\ calls' = Call("get_raw", i, get_raw(ret.val, i))
    /\ UNCHANGED <<build, src, buf, obj, out, dir, seg, ret>>

PairNext ==
    \/ PairFromBytes
    \/ PairTotalSize
    \/ PairFromBytesAfter
    \/ \E i \in 0..1 : PairGetRaw(i)

SpecPair == PairInit /\ [][PairNext]_vars

----------------------------------------------------------------------------
(* SpecOffsets: GenericIndexedV1::from_bytes and the accessors on a container *)
(* whose offset table and declared size are any                              *)

\* the values area: the length-prefixed elements "a" and null
OFFSET_VALUES == <<0, 0, 0, 1, 97, 255, 255, 255, 255>>

\* a container over OFFSET_VALUES: the end offsets written in its table (the
\* table <<5, 9>> is the one of the two elements) and what is added to the
\* size of table and values in the total_bytes field
OffsetSources ==
    [kind : {"offsets"}, offsets : SeqsUpTo({0, 5, 9, 10}, MaxElems), excess : {0, 1}]

offsets_bytes(s) ==
    <<VERSION_V1, 1>>
        \o write_i32(4 * Len(s.offsets) + Len(OFFSET_VALUES) + s.excess)
        \o write_i32(Len(s.offsets))
        \o Concat([i \in 1..Len(s.offsets) |-> write_i32(s.offsets[i])])
        \o OFFSET_VALUES

OffsetsInit ==
    /\ build \in Builds
    /\ src \in OffsetSources
    /\ buf = offsets_bytes(src)
    /\ obj = None /\ out = None
    /\ FacadeIdle

OffsetsFromBytes ==
    /\ obj = None
    /\ obj' = GenericIndexedV1_from_bytes(buf)
    /\ UNCHANGED <<build, src, buf, out, dir, seg, ret, calls>>

\* get, get_raw, get_object_string or get_str on the parsed container
OffsetsElement(op, i) ==
    /\ IsOk(obj) /\ out = None
    /\ out' = Call(op, i,
                   CASE op = "get" -> GenericIndexedV1_get(obj.val, i)
                     [] op = "get_raw" -> get_raw(obj.val, i)
                     [] op = "get_object_string" -> get_object_string(obj.val, i)
                     [] op = "get_str" -> get_str(obj.val, i))
    /\ UNCHANGED <<build, src, buf, obj, dir, seg, ret, calls>>

OffsetsNext ==
    \/ OffsetsFromBytes
    \/ \E op \in {"get", "get_raw", "get_object_string", "get_str"} :
           \E i \in 0..(MaxElems - 1) : OffsetsElement(op, i)

SpecOffsets == OffsetsInit /\ [][OffsetsNext]_vars

----------------------------------------------------------------------------
(* SpecHeader: GenericIndexedV1::from_bytes on the first bytes of a container, *)
(* under any first byte                                                         *)

\* first bytes: version 1 and three others
FirstBytes == {0, 1, 2, 255}

\* the first `keep` bytes, the first byte replaced
first_bytes_of(bytes, first, keep) ==
    IF keep = 0 THEN <<>> ELSE <<first>> \o SubSeq(bytes, 2, keep)

HeaderSources ==
    {h \in [kind : {"header"}, container : GISources, first : FirstBytes,
             keep : 0..(10 + MaxElems * (8 + MaxStrLen))] :
        h.keep <= Len(GIEncode(h.container))}

HeaderInit ==
    /\ build \in Builds
    /\ src \in HeaderSources
    /\ buf = first_bytes_of(GIEncode(src.container), src.first, src.keep)
    /\ obj = None /\ out = None
    /\ FacadeIdle

HeaderFromBytes ==
    /\ obj = None
    /\ obj' = GenericIndexedV1_from_bytes(buf)
    /\ UNCHANGED <<build, src, buf, out, dir, seg, ret, calls>>

HeaderNext == HeaderFromBytes

SpecHeader == HeaderInit /\ [][HeaderNext]_vars

----------------------------------------------------------------------------
(* SpecVSize: VSizeColumnarInts::from_bytes, then len, get and to_vec *)

\* u32 values of a width: 0, 1 and the largest one of the width (for the
\* width 4 the largest integer of the model, 2^31 - 1)
WidthValues(num_bytes) ==
    CASE num_bytes = 1 -> {0, 1, 255}
      [] num_bytes = 2 -> {0, 1, 65535}
      [] num_bytes = 3 -> {0, 1, 16777215}
      [] num_bytes = 4 -> {0, 1, 2147483647}
      [] OTHER -> {0, 1}

\* widths: the four valid ones, and 0, 5 and 8
Widths == {0, 1, 2, 3, 4, 5, 8}

VSizeSources ==
    UNION {[kind : {"vsize"}, num_bytes : {w},
            values : SeqsUpTo(WidthValues(w), MaxValues)] : w \in Widths}

VSizeInit ==
    /\ build \in Builds
    /\ src \in VSizeSources
    /\ buf = build_vsize_ints(src.num_bytes, src.values)
    /\ obj = None /\ out = None
    /\ FacadeIdle

VSizeFromBytes ==
    /\ obj = None
    /\ obj' = VSizeColumnarInts_from_bytes(buf)
    /\ UNCHANGED <<build, src, buf, out, dir, seg, ret, calls>>

VSizeGet(i) ==
    /\ IsOk(obj) /\ out = None
    /\ out' = Call("get", i, VSizeColumnarInts_get(obj.val, i))
    /\ UNCHANGED <<build, src, buf, obj, dir, seg, ret, calls>>

VSizeToVec ==
    /\ IsOk(obj) /\ out = None
    /\ out' = Call("to_vec", 0, to_vec(obj.val))
    /\ UNCHANGED <<build, src, buf, obj, dir, seg, ret, calls>>

VSizeNext ==
    \/ VSizeFromBytes
    \/ \E i \in 0..MaxValues : VSizeGet(i)
    \/ VSizeToVec

SpecVSize == VSizeInit /\ [][VSizeNext]_vars

----------------------------------------------------------------------------
(* SpecBlocks: from_bytes, then decompress_all, of the four block flavors *)

\* i64 values as limbs: 1, -1, i64::MAX, i64::MIN
I64_ONE == <<0, 0, 0, 1>>
I64_MINUS_ONE == <<-1, 65535, 65535, 65535>>
I64_MAX == <<32767, 65535, 65535, 65535>>
I64_MIN == <<-32768, 0, 0, 0>>
LongValues == {I64_ONE, I64_MINUS_ONE, I64_MAX, I64_MIN}

\* f64 bit patterns: 1.0 and -0.0; f32 bit patterns: 1.0 and -0.0
DoubleValues == {<<16368, 0, 0, 0>>, <<-32768, 0, 0, 0>>}
FloatValues == {<<16256, 0>>, <<32768, 0>>}
IntValues == {0, 1, 200}

\* codec ids: the five known ones and an unknown one
Codecs == {0, 1, 2, 3, 254, 255}

BlockSource(flavor, versions, values, widths, codecs) ==
    [kind : {"blocks"}, flavor : {flavor}, version : versions,
     values : SeqsUpTo(values, MaxValues), stride : 1..MaxStride,
     num_bytes : widths, codec : codecs, dropped : {0, 1}]

BlockSources ==
    BlockSource("longs", {2}, LongValues, {8}, Codecs)
    \cup BlockSource("longs", {1}, LongValues, {8}, {0})
    \cup BlockSource("doubles", {2}, DoubleValues, {8}, {1, 255})
    \cup BlockSource("floats", {2}, FloatValues, {4}, {1, 255})
    \cup BlockSource("ints", {2}, IntValues, 1..4, {1, 255})

BlocksInit ==
    /\ build \in Builds
    /\ src \in BlockSources
    /\ buf = compressed_block_set(src)
    /\ obj = None /\ out = None
    /\ FacadeIdle

BlocksFromBytes ==
    /\ obj.tag = "None"
    /\ obj' = CASE src.flavor = "longs" -> CompressedColumnarLongs_from_bytes(buf)
                [] src.flavor = "doubles" -> CompressedColumnarDoubles_from_bytes(buf)
                [] src.flavor = "floats" -> CompressedColumnarFloats_from_bytes(buf)
                [] src.flavor = "ints" -> CompressedColumnarInts_from_bytes(buf)
    /\ UNCHANGED <<build, src, buf, out, dir, seg, ret, calls>>

BlocksDecompressAll ==
    /\ IsOk(obj) /\ out.tag = "None"
    /\ out' = CASE src.flavor = "longs" -> CompressedColumnarLongs_decompress_all(obj.val)
                [] src.flavor = "doubles" -> CompressedColumnarDoubles_decompress_all(obj.val)
                [] src.flavor = "floats" -> CompressedColumnarFloats_decompress_all(obj.val)
                [] src.flavor = "ints" -> CompressedColumnarInts_decompress_all(obj.val)
    /\ UNCHANGED <<build, src, buf, obj, dir, seg, ret, calls>>

BlocksNext == BlocksFromBytes \/ BlocksDecompressAll

SpecBlocks == BlocksInit /\ [][BlocksNext]_vars

----------------------------------------------------------------------------
(* SpecDispatch: from_bytes of the four block flavors under any version byte *)
(* and any width byte, then decompress_all                                   *)

\* a block set of n equal values in blocks of 2: the version byte, the codec
\* id (LZF, LZ4, ZSTD, uncompressed, or an unknown one) and, for ints, the
\* width byte
DispatchSources ==
    [kind : {"dispatch"}, flavor : {"longs", "doubles", "floats"},
     version : {0, 1, 2, 3, 255}, codec : {0, 1, 2, 255, 3}, num_bytes : {8},
     n : 0..MaxValues]
    \cup
    [kind : {"dispatch"}, flavor : {"ints"},
     version : {0, 1, 2, 3, 255}, codec : {0, 1, 2, 255, 3}, num_bytes : {0, 1, 4, 5},
     n : 0..MaxValues]

dispatch_values(s) ==
    [i \in 1..s.n |->
        CASE s.flavor = "longs" -> I64_MIN
          [] s.flavor = "doubles" -> <<16368, 0, 0, 0>>
          [] s.flavor = "floats" -> <<16256, 0>>
          [] s.flavor = "ints" -> 1]

\* the block container of a source
dispatch_blocks(s) ==
    blocks_of(s.flavor, dispatch_values(s), 2,
              IF s.flavor = "floats" THEN 4 ELSE s.num_bytes, s.codec, 0)

\* the bytes of a source: a version-1 longs header has no codec byte
dispatch_bytes(s) ==
    <<s.version>> \o write_i32(s.n) \o write_i32(2)
        \o (IF s.flavor = "ints" THEN <<s.num_bytes>> ELSE <<>>)
        \o (IF s.flavor = "longs" /\ s.version = 1 THEN <<>> ELSE <<s.codec>>)
        \o dispatch_blocks(s)

DispatchInit ==
    /\ build \in Builds
    /\ src \in DispatchSources
    /\ buf = dispatch_bytes(src)
    /\ obj = None /\ out = None
    /\ FacadeIdle

DispatchFromBytes ==
    /\ obj = None
    /\ obj' = CASE src.flavor = "longs" -> CompressedColumnarLongs_from_bytes(buf)
                [] src.flavor = "doubles" -> CompressedColumnarDoubles_from_bytes(buf)
                [] src.flavor = "floats" -> CompressedColumnarFloats_from_bytes(buf)
                [] src.flavor = "ints" -> CompressedColumnarInts_from_bytes(buf)
    /\ UNCHANGED <<build, src, buf, out, dir, seg, ret, calls>>

DispatchDecompressAll ==
    /\ IsOk(obj) /\ out = None
    /\ out' = CASE src.flavor = "longs" -> CompressedColumnarLongs_decompress_all(obj.val)
                [] src.flavor = "doubles" -> CompressedColumnarDoubles_decompress_all(obj.val)
                [] src.flavor = "floats" -> CompressedColumnarFloats_decompress_all(obj.val)
                [] src.flavor = "ints" -> CompressedColumnarInts_decompress_all(obj.val)
    /\ UNCHANGED <<build, src, buf, obj, dir, seg, ret, calls>>

DispatchNext == DispatchFromBytes \/ DispatchDecompressAll

SpecDispatch == DispatchInit /\ [][DispatchNext]_vars

----------------------------------------------------------------------------
(* SpecString: read_string_column on a dictionary-encoded payload *)

\* "", "a", "bc"
DictStrings == {<<>>, <<97>>, <<98, 99>>}

StringSource(convention, entries) ==
    [kind : {"string"}, version : {0, 2, 3}, flags : {0},
     convention : {convention},
     dictionary : SeqsUpTo(entries, MaxDict),
     ids : SeqsUpTo(0..MaxDict, MaxIds),
     num_bytes : {1}, stride : {2}, codec : {255}]

StringSources ==
    StringSource("length", {Absent} \cup {Some(b) : b \in DictStrings})
    \cup StringSource("object", {Some(b) : b \in DictStrings})

\* feature masks of a version-3 column other than 0: every bit set, bit 30
\* alone, bit 0 alone
FeatureMasks == {-1, 1073741824, 1}

\* version-3 payloads whose feature mask has bits set
MaskedStringSources ==
    [kind : {"string"}, version : {3}, flags : FeatureMasks,
     convention : {"length"},
     dictionary : {<<Some(COLUMN_A)>>},
     ids : SeqsUpTo({0}, MaxIds),
     num_bytes : {1}, stride : {2}, codec : {255}]

StringInit ==
    /\ build \in Builds
    /\ src \in StringSources \cup MaskedStringSources
    /\ buf = string_payload(src)
    /\ obj = None /\ out = None
    /\ FacadeIdle

ReadStringColumn ==
    /\ out = None
    /\ out' = read_string_column(buf)
    /\ UNCHANGED <<build, src, buf, obj, dir, seg, ret, calls>>

StringNext == ReadStringColumn

SpecString == StringInit /\ [][StringNext]_vars

----------------------------------------------------------------------------
(* SpecMeta: SegmentMetadata::from_bytes on an index.drd *)

MetaSources ==
    [kind : {"meta"}, convention : {"length", "object"},
     columns : SeqsUpTo({TIME_COLUMN, COLUMN_A}, MaxNames),
     dimensions : SeqsUpTo({COLUMN_A}, MaxNames),
     start : {I64_MIN, I64_ONE}, end : {I64_MINUS_ONE, I64_MAX},
     trailing : {<<>>, <<7, 7>>}]

MetaInit ==
    /\ build \in Builds
    /\ src \in MetaSources
    /\ buf = index_drd(src)
    /\ obj = None /\ out = None
    /\ FacadeIdle

MetadataFromBytes ==
    /\ out = None
    /\ out' = SegmentMetadata_from_bytes(buf)
    /\ UNCHANGED <<build, src, buf, obj, dir, seg, ret, calls>>

MetaNext == MetadataFromBytes

SpecMeta == MetaInit /\ [][MetaNext]_vars

----------------------------------------------------------------------------
(* SpecCut: every parser on a valid input with its last byte removed *)

\* the valid inputs of each parser: what the parser decodes when it is whole
CutSources ==
    [kind : {"cut"}, parser : {"generic_indexed"}, input : GISources]
    \cup [kind : {"cut"}, parser : {"vsize"},
          input : {v \in VSizeSources : v.num_bytes \in 1..4}]
    \cup [kind : {"cut"}, parser : {"blocks"},
          input : {b \in BlockSources :
                      b.version = 2 /\ b.codec \in {1, 254, 255} /\ b.dropped = 0}]
    \cup [kind : {"cut"}, parser : {"column_header"},
          input : {d.descriptor : d \in JsonDocuments}]
    \cup [kind : {"cut"}, parser : {"metadata"},
          input : {m \in MetaSources : m.trailing = <<>>}]
    \cup [kind : {"cut"}, parser : {"string"},
          input : {c \in StringSources :
                      \A i \in 1..Len(c.ids) : c.ids[i] < Len(c.dictionary)}]

\* the bytes of a valid input
valid_input(parser, input) ==
    CASE parser = "generic_indexed" -> GIEncode(input)
      [] parser = "vsize" -> build_vsize_ints(input.num_bytes, input.values)
      [] parser = "blocks" -> compressed_block_set(input)
      [] parser = "column_header" ->
             column_file(input.value_type, input.has_multiple_values, <<>>)
      [] parser = "metadata" -> index_drd(input)
      [] parser = "string" -> string_payload(input)

\* all the bytes but the last one
without_last_byte(bytes) == SubSeq(bytes, 1, Len(bytes) - 1)

CutInit ==
    /\ build \in Builds
    /\ src \in CutSources
    /\ buf = without_last_byte(valid_input(src.parser, src.input))
    /\ obj = None /\ out = None
    /\ FacadeIdle

CutFromBytes ==
    /\ obj = None
    /\ src.parser \in {"generic_indexed", "vsize", "blocks"}
    /\ obj' = CASE src.parser = "generic_indexed" -> GenericIndexedV1_from_bytes(buf)
                [] src.parser = "vsize" -> VSizeColumnarInts_from_bytes(buf)
                [] src.input.flavor = "longs" -> CompressedColumnarLongs_from_bytes(buf)
                [] src.input.flavor = "doubles" -> CompressedColumnarDoubles_from_bytes(buf)
                [] src.input.flavor = "floats" -> CompressedColumnarFloats_from_bytes(buf)
                [] src.input.flavor = "ints" -> CompressedColumnarInts_from_bytes(buf)
    /\ UNCHANGED <<build, src, buf, out, dir, seg, ret, calls>>

CutElement(op, i) ==
    /\ src.parser = "generic_indexed" /\ IsOk(obj) /\ out = None
    /\ out' = Call(op, i, CASE op = "get" -> GenericIndexedV1_get(obj.val, i)
                             [] op = "get_raw" -> get_raw(obj.val, i)
                             [] op = "get_object_string" -> get_object_string(obj.val, i)
                             [] op = "get_str" -> get_str(obj.val, i))
    /\ UNCHANGED <<build, src, buf, obj, dir, seg, ret, calls>>

CutVSizeGet(i) ==
    /\ src.parser = "vsize" /\ IsOk(obj) /\ out = None
    /\ out' = Call("get", i, VSizeColumnarInts_get(obj.val, i))
    /\ UNCHANGED <<build, src, buf, obj, dir, seg, ret, calls>>

CutVSizeToVec ==
    /\ src.parser = "vsize" /\ IsOk(obj) /\ out = None
    /\ out' = Call("to_vec", 0, to_vec(obj.val))
    /\ UNCHANGED <<build, src, buf, obj, dir, seg, ret, calls>>

CutDecompressAll ==
    /\ src.parser = "blocks" /\ IsOk(obj) /\ out = None
    /\ out' = Call("decompress_all", 0, decompress_blocks(src.input.flavor, obj.val))
    /\ UNCHANGED <<build, src, buf, obj, dir, seg, ret, calls>>

CutParseColumnHeader ==
    /\ src.parser = "column_header" /\ out = None
    /\ out' = Call("parse_column_header", 0, parse_column_header(buf))
    /\ UNCHANGED <<build, src, buf, obj, dir, seg, ret, calls>>

CutMetadataFromBytes ==
    /\ src.parser = "metadata" /\ out = None
    /\ out' = Call("from_bytes", 0, SegmentMetadata_from_bytes(buf))
    /\ UNCHANGED <<build, src, buf, obj, dir, seg, ret, calls>>

CutReadStringColumn ==
    /\ src.parser = "string" /\ out = None
    /\ out' = Call("read_string_column", 0, read_string_column(buf))
    /\ UNCHANGED <<build, src, buf, obj, dir, seg, ret, calls>>

CutNext ==
    \/ CutFromBytes
    \/ \E op \in {"get", "get_raw", "get_object_string", "get_str"} :
           \E i \in 0..MaxElems : CutElement(op, i)
    \/ \E i \in 0..MaxValues : CutVSizeGet(i)
    \/ CutVSizeToVec
    \/ CutDecompressAll
    \/ CutParseColumnHeader
    \/ CutMetadataFromBytes
    \/ CutReadStringColumn

SpecCut == CutInit /\ [][CutNext]_vars

----------------------------------------------------------------------------
(* SpecLoop: decompress_all one block at a time, on a block set whose total  *)
(* count, stride and blocks are chosen apart                                 *)

\* the header's total count and stride, the number of blocks, the number of
\* values each block holds
LoopSources ==
    [kind : {"loop"}, flavor : {"longs", "doubles", "floats", "ints"},
     total : 0..MaxValues, stride : 0..MaxStride,
     blocks : 0..MaxValues, held : 0..MaxStride, codec : {1, 255}]

\* every value of block k (counted from 1) carries k
loop_value(flavor, k) ==
    CASE flavor = "longs" -> <<0, 0, 0, k>>
      [] flavor = "doubles" -> <<16368, 0, 0, k>>
      [] flavor = "floats" -> <<16256, k>>
      [] flavor = "ints" -> k

loop_num_bytes(flavor) ==
    CASE flavor \in {"longs", "doubles"} -> 8
      [] flavor = "floats" -> 4
      [] flavor = "ints" -> 1

\* the block set as laid out in the readers' header comments
loop_bytes(s) ==
    <<2>> \o write_i32(s.total) \o write_i32(s.stride)
        \o (IF s.flavor = "ints" THEN <<loop_num_bytes(s.flavor)>> ELSE <<>>)
        \o <<s.codec>>
        \o build_generic_indexed(
               [k \in 1..s.blocks |->
                   Some(compress_block(s.codec,
                       Concat([i \in 1..s.held |->
                                  element_bytes_of(s.flavor, loop_value(s.flavor, k),
                                                   loop_num_bytes(s.flavor))])))])

LoopInit ==
    /\ build \in Builds
    /\ src \in LoopSources
    /\ buf = loop_bytes(src)
    /\ obj = None /\ out = None
    /\ FacadeIdle

LoopFromBytes ==
    /\ obj = None
    /\ obj' = CASE src.flavor = "longs" -> CompressedColumnarLongs_from_bytes(buf)
                [] src.flavor = "doubles" -> CompressedColumnarDoubles_from_bytes(buf)
                [] src.flavor = "floats" -> CompressedColumnarFloats_from_bytes(buf)
                [] src.flavor = "ints" -> CompressedColumnarInts_from_bytes(buf)
    /\ UNCHANGED <<build, src, buf, out, dir, seg, ret, calls>>

\* let mut result = Vec::with_capacity(self.total_size)
LoopBegin ==
    /\ IsOk(obj) /\ calls = None /\ out = None
    /\ IF obj.val.total_size < 0
       THEN out' = Panic /\ calls' = calls
       ELSE /\ calls' = [block_idx |-> 0, result |-> <<>>, taken |-> <<>>]
            /\ out' = out
    /\ UNCHANGED <<build, src, buf, obj, dir, seg, ret>>

\* the body of the block loop: the values that block block_idx adds to result
block_step(flavor, cc, block_idx, result) ==
    Try(GenericIndexedV1_get(cc.blocks, block_idx), LAMBDA block_data :
        IF ~block_data.some THEN Err("InvalidData", 0)
        ELSE IF Panics(UsizeLess(cc.total_size, Len(result))) THEN Panic
        ELSE Try(decompress_block(cc.compression, block_data.v,
                                  values_in_block(cc, result) * cc.num_bytes),
                 LAMBDA decompressed :
                     block_values(flavor, decompressed, values_in_block(cc, result),
                                  cc.num_bytes)))

\* one turn of `for block_idx in 0..num_blocks`
LoopBlock ==
    /\ calls # None /\ out = None
    /\ UsizeLess(calls.block_idx, GenericIndexedV1_len(obj.val.blocks))
    /\ \E values \in {block_step(src.flavor, obj.val, calls.block_idx, calls.result)} :
           IF IsOk(values)
           THEN /\ calls' = [block_idx |-> calls.block_idx + 1,
                             result |-> calls.result \o values.val,
                             taken |-> Append(calls.taken, Len(values.val))]
                /\ out' = out
           ELSE out' = values /\ calls' = calls
    /\ UNCHANGED <<build, src, buf, obj, dir, seg, ret>>

\* Ok(result) after the last block
LoopReturn ==
    /\ calls # None /\ out = None
    /\ ~UsizeLess(calls.block_idx, GenericIndexedV1_len(obj.val.blocks))
    /\ out' = Ok(calls.result)
    /\ UNCHANGED <<build, src, buf, obj, dir, seg, ret, calls>>

LoopNext == LoopFromBytes \/ LoopBegin \/ LoopBlock \/ LoopReturn

SpecLoop == LoopInit /\ [][LoopNext]_vars

----------------------------------------------------------------------------
(* SpecNegative: the parsers on a header whose signed 32-bit field is        *)
(* negative                                                                  *)

\* the header field that is negative, and its value
NegativeSources ==
    [kind : {"negative"},
     field : {"gi_count", "longs_total", "longs_stride", "doubles_total",
              "floats_stride", "ints_total", "ints_stride", "vsize_size",
              "json_length"},
     value : {-1, -2, -4, -5, -65536}]

\* the flavor of the block set that a field belongs to
field_flavor(field) ==
    CASE field \in {"longs_total", "longs_stride"} -> "longs"
      [] field = "doubles_total" -> "doubles"
      [] field = "floats_stride" -> "floats"
      [] field \in {"ints_total", "ints_stride"} -> "ints"

\* a block set of one block of two values, uncompressed, with the field in
\* the place of the total count (2) or of the stride (2)
negative_block_set(s) ==
    Let(field_flavor(s.field), LAMBDA flavor :
        <<2>>
        \o write_i32(IF s.field \in {"longs_total", "doubles_total", "ints_total"}
                     THEN s.value ELSE 2)
        \o write_i32(IF s.field \in {"longs_stride", "floats_stride", "ints_stride"}
                     THEN s.value ELSE 2)
        \o (IF flavor = "ints" THEN <<1>> ELSE <<>>)
        \o <<255>>
        \o blocks_of(flavor,
                     CASE flavor = "longs" -> <<I64_ONE, I64_MIN>>
                       [] flavor = "doubles" -> <<<<16368, 0, 0, 0>>, <<-32768, 0, 0, 0>>>>
                       [] flavor = "floats" -> <<<<16256, 0>>, <<32768, 0>>>>
                       [] flavor = "ints" -> <<0, 1>>,
                     2, IF flavor = "floats" THEN 4 ELSE IF flavor = "ints" THEN 1 ELSE 8,
                     255, 0))

\* the bytes of a source
negative_bytes(s) ==
    CASE s.field = "gi_count" -> <<VERSION_V1, 1>> \o write_i32(0) \o write_i32(s.value)
      [] s.field = "vsize_size" -> <<0, 1>> \o write_i32(s.value) \o <<7>>
      [] s.field = "json_length" -> write_i32(s.value) \o json_text("Long", FALSE)
      [] OTHER -> negative_block_set(s)

NegativeInit ==
    /\ build \in Builds
    /\ src \in NegativeSources
    /\ buf = negative_bytes(src)
    /\ obj = None /\ out = None
    /\ FacadeIdle

NegativeFromBytes ==
    /\ obj = None /\ src.field # "json_length"
    /\ obj' = CASE src.field = "gi_count" -> GenericIndexedV1_from_bytes(buf)
                [] src.field = "vsize_size" -> VSizeColumnarInts_from_bytes(buf)
                [] field_flavor(src.field) = "longs" -> CompressedColumnarLongs_from_bytes(buf)
                [] field_flavor(src.field) = "doubles" ->
                       CompressedColumnarDoubles_from_bytes(buf)
                [] field_flavor(src.field) = "floats" ->
                       CompressedColumnarFloats_from_bytes(buf)
                [] field_flavor(src.field) = "ints" -> CompressedColumnarInts_from_bytes(buf)
    /\ UNCHANGED <<build, src, buf, out, dir, seg, ret, calls>>

\* the first element of the container that from_bytes returned
NegativeGet ==
    /\ src.field \in {"gi_count", "vsize_size"} /\ IsOk(obj) /\ out = None
    /\ out' = Call("get", 0, IF src.field = "gi_count" THEN GenericIndexedV1_get(obj.val, 0)
                             ELSE VSizeColumnarInts_get(obj.val, 0))
    /\ UNCHANGED <<build, src, buf, obj, dir, seg, ret, calls>>

NegativeToVec ==
    /\ src.field = "vsize_size" /\ IsOk(obj) /\ out = None
    /\ out' = Call("to_vec", 0, to_vec(obj.val))
    /\ UNCHANGED <<build, src, buf, obj, dir, seg, ret, calls>>

NegativeDecompressAll ==
    /\ src.field \notin {"gi_count", "vsize_size", "json_length"} /\ IsOk(obj) /\ out = None
    /\ out' = Call("decompress_all", 0, decompress_blocks(field_flavor(src.field), obj.val))
    /\ UNCHANGED <<build, src, buf, obj, dir, seg, ret, calls>>

NegativeParseColumnHeader ==
    /\ src.field = "json_length" /\ out = None
    /\ out' = Call("parse_column_header", 0, parse_column_header(buf))
    /\ UNCHANGED <<build, src, buf, obj, dir, seg, ret, calls>>

NegativeNext ==
    \/ NegativeFromBytes
    \/ NegativeGet
    \/ NegativeToVec
    \/ NegativeDecompressAll
    \/ NegativeParseColumnHeader

SpecNegative == NegativeInit /\ [][NegativeNext]_vars

----------------------------------------------------------------------------
(* SpecSmoosh: SmooshReader::open on a directory, then map_file *)

\* "foo" and "a", names of archive entries, and "XXXXXXXXXXHELLO!!" and "yz",
\* the bytes of 00000.smoosh and 00001.smoosh
FOO == <<102, 111, 111>>
CHUNK_0 == <<88, 88, 88, 88, 88, 88, 88, 88, 88, 88, 72, 69, 76, 76, 79, 33, 33>>
CHUNK_1 == <<121, 122>>

\* the first line of meta.smoosh: well-formed (with the chunk count it gives,
\* -1 for usize::MAX), or with fewer than 3 fields, another version, or a
\* chunk count that is no number
HeaderLines ==
    {
     \* "v1,2147483647,1"
     [text |-> <<118, 49, 44, 50, 49, 52, 55, 52, 56, 51, 54, 52, 55, 44, 49>>, form |-> "well", num_chunks |-> 1],
     \* "v1,2147483647,2"
     [text |-> <<118, 49, 44, 50, 49, 52, 55, 52, 56, 51, 54, 52, 55, 44, 50>>, form |-> "well", num_chunks |-> 2],
     \* "v1,1,0"
     [text |-> <<118, 49, 44, 49, 44, 48>>, form |-> "well", num_chunks |-> 0],
     \* "v1,1,3"
     [text |-> <<118, 49, 44, 49, 44, 51>>, form |-> "well", num_chunks |-> 3],
     \* "v1,1, 1 "
     [text |-> <<118, 49, 44, 49, 44, 32, 49, 32>>, form |-> "well", num_chunks |-> 1],
     \* "v1,1,1\r"
     [text |-> <<118, 49, 44, 49, 44, 49, 13>>, form |-> "well", num_chunks |-> 1],
     \* "v1,1,1,9"
     [text |-> <<118, 49, 44, 49, 44, 49, 44, 57>>, form |-> "well", num_chunks |-> 1],
     \* "v1,1,18446744073709551615"
     [text |-> <<118, 49, 44, 49, 44, 49, 56, 52, 52, 54, 55, 52, 52, 48, 55, 51, 55, 48, 57, 53, 53, 49, 54, 49, 53>>, form |-> "well", num_chunks |-> -1],
     \* "v1,1"
     [text |-> <<118, 49, 44, 49>>, form |-> "short", num_chunks |-> 0],
     \* ""
     [text |-> <<>>, form |-> "short", num_chunks |-> 0],
     \* "v2,1,1"
     [text |-> <<118, 50, 44, 49, 44, 49>>, form |-> "version", num_chunks |-> 0],
     \* "v1,1,x"
     [text |-> <<118, 49, 44, 49, 44, 120>>, form |-> "number", num_chunks |-> 0],
     \* "v1,1,18446744073709551616"
     [text |-> <<118, 49, 44, 49, 44, 49, 56, 52, 52, 54, 55, 52, 52, 48, 55, 51, 55, 48, 57, 53, 53, 49, 54, 49, 54>>, form |-> "number", num_chunks |-> 0]
    }

ArchiveEntry(name, chunk_number, start_offset, end_offset) ==
    [form |-> "entry", name |-> name, chunk_number |-> chunk_number,
     start_offset |-> start_offset, end_offset |-> end_offset]

\* the other lines of meta.smoosh: entries <name>,<chunk>,<start>,<end>,
\* blank lines, and lines with fewer than 4 fields or with a field that is no
\* number
EntryLines ==
    {ArchiveEntry(FOO, 0, 10, 17), ArchiveEntry(COLUMN_A, 0, 1, 3),
     ArchiveEntry(COLUMN_A, 0, 3, 3), ArchiveEntry(COLUMN_A, 0, 3, 1),
     ArchiveEntry(COLUMN_A, 0, 0, 18), ArchiveEntry(COLUMN_A, 1, 0, 2)}
    \cup
    {
     \* " "
     [form |-> "blank", text |-> <<32>>],
     \* ""
     [form |-> "blank", text |-> <<>>],
     \* "a,0,1"
     [form |-> "short", text |-> <<97, 44, 48, 44, 49>>],
     \* "a,x,1,3"
     [form |-> "number", text |-> <<97, 44, 120, 44, 49, 44, 51>>],
     \* "a,0,-1,3"
     [form |-> "number", text |-> <<97, 44, 48, 44, 45, 49, 44, 51>>],
     \* "a,0,1,3x"
     [form |-> "number", text |-> <<97, 44, 48, 44, 49, 44, 51, 120>>]
    }

\* the text of a line
line_text(line) ==
    IF line.form = "entry"
    THEN line.name \o <<COMMA>> \o decimal(line.chunk_number) \o <<COMMA>>
             \o decimal(line.start_offset) \o <<COMMA>> \o decimal(line.end_offset)
    ELSE line.text

\* meta.smoosh: an empty file, or the first line and the other lines, each
\* ended by a line feed
SmooshSources ==
    [kind : {"smoosh"}, empty : {TRUE}, header : {CHOOSE h \in HeaderLines : TRUE},
     lines : {<<>>}]
    \cup [kind : {"smoosh"}, empty : {FALSE}, header : HeaderLines,
          lines : SeqsUpTo(EntryLines, MaxLines)]

meta_smoosh(s) ==
    IF s.empty THEN <<>>
    ELSE s.header.text \o <<NEWLINE>>
             \o Concat([i \in 1..Len(s.lines) |-> line_text(s.lines[i]) \o <<NEWLINE>>])

SmooshInit ==
    /\ build \in Builds
    /\ src \in SmooshSources
    /\ dir = [meta |-> Some(meta_smoosh(src)), chunks |-> <<CHUNK_0, CHUNK_1>>]
    /\ buf = <<>> /\ obj = None /\ out = None
    /\ seg = None /\ ret = None /\ calls = None

SmooshOpen ==
    /\ obj = None
    /\ obj' = SmooshReader_open(dir)
    /\ UNCHANGED <<build, src, buf, out, dir, seg, ret, calls>>

MapFile(name) ==
    /\ IsOk(obj) /\ out = None
    /\ out' = Call("map_file", name, map_file(obj.val, name))
    /\ UNCHANGED <<build, src, buf, obj, dir, seg, ret, calls>>

SmooshNext ==
    \/ SmooshOpen
    \/ \E name \in {FOO, COLUMN_A, MISSING_COLUMN} : MapFile(name)

SpecSmoosh == SmooshInit /\ [][SmooshNext]_vars

----------------------------------------------------------------------------
(* SpecEntries: the entries of an opened SmooshReader, as entry(), size()    *)
(* and map_file show them                                                    *)

\* meta.smoosh with 1 or 2 chunks declared and up to MaxLines entry lines
EntriesSources ==
    [kind : {"entries"}, empty : {FALSE},
     header : {h \in HeaderLines : Len(h.text) = 15},
     lines : SeqsUpTo({l \in EntryLines : l.form = "entry"}, MaxLines)]

EntriesInit ==
    /\ build \in Builds
    /\ src \in EntriesSources
    /\ dir = [meta |-> Some(meta_smoosh(src)), chunks |-> <<CHUNK_0, CHUNK_1>>]
    /\ buf = <<>> /\ obj = None /\ out = None
    /\ seg = None /\ ret = None /\ calls = None

EntriesOpen ==
    /\ obj = None
    /\ obj' = SmooshReader_open(dir)
    /\ UNCHANGED <<build, src, buf, out, dir, seg, ret, calls>>

\* SmooshReader::entry
SmooshReader_entry(smoosh, name) ==
    IF name \in DOMAIN smoosh.entries THEN Some(smoosh.entries[name]) ELSE Absent

\* SmooshEntry::size: the subtraction panics on overflow under overflow checks
\* and wraps otherwise
SmooshEntry_size(entry) ==
    IF Panics(UsizeLess(entry.end_offset, entry.start_offset)) THEN Panic
    ELSE Ok(entry.end_offset - entry.start_offset)

EntryCall(name) ==
    /\ IsOk(obj) /\ ret = None
    /\ ret' = Call("entry", name, SmooshReader_entry(obj.val, name))
    /\ UNCHANGED <<build, src, buf, obj, out, dir, seg, calls>>

\* size() on the entry that entry() returned
EntrySize ==
    /\ ret # None /\ ret.res.some /\ calls = None
    /\ calls' = Call("size", ret.index, SmooshEntry_size(ret.res.v))
    /\ UNCHANGED <<build, src, buf, obj, out, dir, seg, ret>>

EntriesMapFile(name) ==
    /\ IsOk(obj) /\ out = None
    /\ out' = Call("map_file", name, map_file(obj.val, name))
    /\ UNCHANGED <<build, src, buf, obj, dir, seg, ret, calls>>

EntriesNext ==
    \/ EntriesOpen
    \/ \E name \in {FOO, COLUMN_A, MISSING_COLUMN} : EntryCall(name)
    \/ EntrySize
    \/ \E name \in {FOO, COLUMN_A} : EntriesMapFile(name)

SpecEntries == EntriesInit /\ [][EntriesNext]_vars

----------------------------------------------------------------------------
(* Spec: the segment facade on a segment directory *)

\* the values of row i of a column, by value type
LongRow(i) == <<I64_ONE, I64_MINUS_ONE, I64_MAX, I64_MIN>>[(i % 4) + 1]
BitsRow(values, i) == values[(i % 2) + 1]

\* the binary payload of a column of `rows` rows
column_payload(value_type, rows) ==
    CASE value_type \in {"Long", "Complex"} ->
           compressed_block_set([version |-> 2, values |-> [i \in 1..rows |-> LongRow(i)],
                                 stride |-> 2, flavor |-> "longs", num_bytes |-> 8,
                                 codec |-> 255, dropped |-> 0])
      [] value_type = "Double" ->
           compressed_block_set([version |-> 2,
                                 values |-> [i \in 1..rows |->
                                     BitsRow(<<<<16368, 0, 0, 0>>, <<-32768, 0, 0, 0>>>>, i)],
                                 stride |-> 2, flavor |-> "doubles", num_bytes |-> 8,
                                 codec |-> 255, dropped |-> 0])
      [] value_type = "Float" ->
           compressed_block_set([version |-> 2,
                                 values |-> [i \in 1..rows |->
                                     BitsRow(<<<<16256, 0>>, <<32768, 0>>>>, i)],
                                 stride |-> 2, flavor |-> "floats", num_bytes |-> 4,
                                 codec |-> 255, dropped |-> 0])
      [] value_type = "String" ->
           string_payload([version |-> 2, flags |-> 0, convention |-> "length",
                           dictionary |-> <<Some(<<>>), Some(COLUMN_A)>>,
                           ids |-> [i \in 1..rows |-> i % 2],
                           num_bytes |-> 1, stride |-> 2, codec |-> 255])

\* the description of a column: its descriptor and its number of rows
ColumnRecipes(types) ==
    [value_type : types, has_multiple_values : BOOLEAN, rows : 0..MaxRows]

HasDocument(c) ==
    \E d \in JsonDocuments :
        /\ d.descriptor.value_type = c.value_type
        /\ d.descriptor.has_multiple_values = c.has_multiple_values

\* version.bin: absent, cut short, or a big-endian i32 (one with a byte after)
VersionFiles ==
    {[present |-> FALSE, value |-> 0, cut |-> 0, extra |-> <<>>],
     [present |-> TRUE, value |-> 9, cut |-> 1, extra |-> <<>>],
     [present |-> TRUE, value |-> 9, cut |-> 0, extra |-> <<0>>]}
    \cup [present : {TRUE}, value : {9, 8, 0, -1, 10, 150994944},
          cut : {0}, extra : {<<>>}]

version_bin(v) ==
    IF ~v.present THEN Absent
    ELSE Some(SubSeq(write_i32(v.value), 1, 4 - v.cut) \o v.extra)

SegmentRecipes ==
    {r \in [kind : {"segment"}, version : VersionFiles, index : {"length", "object"},
            time : ColumnRecipes({"Long", "Complex"}),
            a : ColumnRecipes({"Long", "Float", "Double", "String", "Complex"})] :
        HasDocument(r.time) /\ HasDocument(r.a)}

\* the segment directory of a recipe: version.bin, meta.smoosh, 00000.smoosh
segment_dir(r) ==
    [version |-> version_bin(r.version)] @@
    smoosh_archive(<<
        File(INDEX_DRD, index_drd([convention |-> r.index,
                                   columns |-> <<TIME_COLUMN, COLUMN_A>>,
                                   dimensions |-> <<COLUMN_A>>,
                                   start |-> I64_ONE, end |-> I64_MAX,
                                   trailing |-> <<>>])),
        File(TIME_COLUMN, column_file(r.time.value_type, r.time.has_multiple_values,
                                      column_payload(r.time.value_type, r.time.rows))),
        File(COLUMN_A, column_file(r.a.value_type, r.a.has_multiple_values,
                                   column_payload(r.a.value_type, r.a.rows)))>>)

Init ==
    /\ build \in Builds
    /\ src \in SegmentRecipes
    /\ dir = segment_dir(src)
    /\ seg = None /\ ret = None /\ calls = None
    /\ buf = <<>> /\ obj = None /\ out = None

Returned(op, names, res) == [op |-> op, names |-> names, res |-> res]

Open ==
    /\ seg = None
    /\ seg' = DruidSegment_open(dir)
    /\ UNCHANGED <<build, src, buf, obj, out, dir, ret, calls>>

ReadColumns(names) ==
    /\ IsOk(seg) /\ ret = None
    /\ ret' = Returned("read_columns", names, read_columns(seg.val, names))
    /\ UNCHANGED <<build, src, buf, obj, out, dir, seg, calls>>

ReadAll ==
    /\ IsOk(seg) /\ ret = None
    /\ ret' = Returned("read_all", seg.val.metadata.columns, read_all(seg.val))
    /\ UNCHANGED <<build, src, buf, obj, out, dir, seg, calls>>

NumRows ==
    /\ IsOk(seg) /\ ret = None
    /\ ret' = Returned("num_rows", <<>>, num_rows(seg.val))
    /\ UNCHANGED <<build, src, buf, obj, out, dir, seg, calls>>

Next ==
    \/ Open
    \/ \E names \in SeqsUpTo({TIME_COLUMN, COLUMN_A, MISSING_COLUMN}, MaxNames) :
           ReadColumns(names)
    \/ ReadAll
    \/ NumRows

Spec == Init /\ [][Next]_vars

----------------------------------------------------------------------------
(* SpecShared: one opened segment, read by two threads at the same time.  A  *)
(* call of read_columns or read_all advances one column at a time, so that   *)
(* the calls of the threads interleave between columns.                      *)

Threads == {"reader_1", "reader_2"}

\* segments that open: a __time column of MaxRows rows and a column a of any
\* value type, of as many rows or one fewer
SharedRecipes ==
    {r \in SegmentRecipes :
        /\ r.version = [present |-> TRUE, value |-> 9, cut |-> 0, extra |-> <<>>]
        /\ r.index = "length"
        /\ r.time = [value_type |-> "Long", has_multiple_values |-> FALSE, rows |-> MaxRows]
        /\ ~r.a.has_multiple_values /\ r.a.rows >= MaxRows - 1}

Idle == [state |-> "idle"]

Running(op, names) ==
    [state |-> "running", op |-> op, names |-> names, i |-> 1,
     fields |-> <<>>, arrays |-> <<>>]

Done(c, res) == [state |-> "done", op |-> c.op, names |-> c.names, res |-> res]

SharedInit ==
    /\ build \in Builds
    /\ src \in SharedRecipes
    /\ dir = segment_dir(src)
    /\ seg = None /\ ret = None
    /\ calls = [t \in Threads |-> Idle]
    /\ buf = <<>> /\ obj = None /\ out = None

SharedOpen ==
    /\ seg = None
    /\ seg' = DruidSegment_open(dir)
    /\ UNCHANGED <<build, src, buf, obj, out, dir, ret, calls>>

\* a thread calls read_columns(names), num_rows(), schema(), metadata() or
\* smoosh().map_file(names[1])
BeginCall(t, op, names) ==
    /\ IsOk(seg) /\ calls[t] = Idle
    /\ calls' = [calls EXCEPT ![t] = Running(op, names)]
    /\ UNCHANGED <<build, src, buf, obj, out, dir, seg, ret>>

\* a thread calls read_all(): the names are those of the metadata
BeginReadAll(t) ==
    /\ IsOk(seg) /\ calls[t] = Idle
    /\ calls' = [calls EXCEPT ![t] = Running("read_all", seg.val.metadata.columns)]
    /\ UNCHANGED <<build, src, buf, obj, out, dir, seg, ret>>

\* one iteration of the column loop of read_columns: the column is looked up
\* and decoded
column_read(segment, name) ==
    Try(map_file(segment.smoosh, name), LAMBDA col_data : read_column(name, col_data))

\* ... an error ends the call, a column is pushed with its field
column_pushed(c, column) ==
    IF ~IsOk(column) THEN Done(c, column)
    ELSE [c EXCEPT !.i = @ + 1,
                   !.fields = Append(@, Field(c.names[c.i],
                                  druid_type_to_arrow(column.val.descriptor, c.names[c.i]))),
                   !.arrays = Append(@, column.val.array)]

\* ... after the last column the batch is built
column_step(segment, c) ==
    IF c.i > Len(c.names) THEN Done(c, RecordBatch_try_new(c.fields, c.arrays))
    ELSE column_pushed(c, column_read(segment, c.names[c.i]))

\* a column step that takes the entry it looked up out of the archive
ColumnStep_taking_entry(t) ==
    /\ calls[t].state = "running" /\ calls[t].op \in {"read_columns", "read_all"}
    /\ calls' = [calls EXCEPT ![t] = column_step(seg.val, calls[t])]
    /\ seg' = IF calls[t].i > Len(calls[t].names) THEN seg
              ELSE [seg EXCEPT !.val.smoosh.entries =
                       [n \in DOMAIN @ \ {calls[t].names[calls[t].i]} |-> @[n]]]
    /\ UNCHANGED <<build, src, buf, obj, out, dir, ret>>

ColumnStep(t) ==
    /\ calls[t].state = "running" /\ calls[t].op \in {"read_columns", "read_all"}
    /\ calls' = [calls EXCEPT ![t] = column_step(seg.val, calls[t])]
    /\ UNCHANGED <<build, src, buf, obj, out, dir, seg, ret>>

NumRowsReturn(t) ==
    /\ calls[t].state = "running" /\ calls[t].op = "num_rows"
    /\ calls' = [calls EXCEPT ![t] = Done(calls[t], num_rows(seg.val))]
    /\ UNCHANGED <<build, src, buf, obj, out, dir, seg, ret>>

SchemaReturn(t) ==
    /\ calls[t].state = "running" /\ calls[t].op = "schema"
    /\ calls' = [calls EXCEPT ![t] = Done(calls[t], seg.val.schema)]
    /\ UNCHANGED <<build, src, buf, obj, out, dir, seg, ret>>

MetadataReturn(t) ==
    /\ calls[t].state = "running" /\ calls[t].op = "metadata"
    /\ calls' = [calls EXCEPT ![t] = Done(calls[t], seg.val.metadata)]
    /\ UNCHANGED <<build, src, buf, obj, out, dir, seg, ret>>

MapFileReturn(t) ==
    /\ calls[t].state = "running" /\ calls[t].op = "map_file"
    /\ calls' = [calls EXCEPT ![t] =
                    Done(calls[t], map_file(seg.val.smoosh, calls[t].names[1]))]
    /\ UNCHANGED <<build, src, buf, obj, out, dir, seg, ret>>

SharedNext ==
    \/ SharedOpen
    \/ \E t \in Threads :
           \/ \E names \in SeqsUpTo({TIME_COLUMN, COLUMN_A}, MaxNames) :
                  BeginCall(t, "read_columns", names)
           \/ \E op \in {"num_rows", "schema", "metadata"} : BeginCall(t, op, <<>>)
           \/ \E name \in {COLUMN_A, MISSING_COLUMN} : BeginCall(t, "map_file", <<name>>)
           \/ BeginReadAll(t)
           \/ ColumnStep(t)
           \/ NumRowsReturn(t)
           \/ SchemaReturn(t)
           \/ MetadataReturn(t)
           \/ MapFileReturn(t)

SpecShared == SharedInit /\ [][SharedNext]_vars

----------------------------------------------------------------------------
(* SpecOpen: DruidSegment::open on a directory, one `?` of its body at a     *)
(* time, so that the steps that ran are on record when it returns            *)

\* version.bin of the directories opened: 9, 8, or no file
OpenVersions ==
    {v \in VersionFiles : v.cut = 0 /\ v.extra = <<>> /\ v.value \in {9, 8, 0}}

\* a directory to open: version.bin; the first line of meta.smoosh
\* ("v1,2147483647,1" or "v2,1,1"); the entry of index.drd (its range, its
\* range with the two offsets exchanged, or no entry); the column names that
\* index.drd lists, and whether its last byte is missing; the file of column
\* a (whole, cut after 3 bytes, or no entry)
OpenRecipes ==
    [kind : {"open"}, version : OpenVersions,
     header : {h \in HeaderLines : h.form = "version" \/ (Len(h.text) = 15 /\ h.num_chunks = 1)},
     index_entry : {"whole", "exchanged", "absent"},
     columns : {<<TIME_COLUMN, COLUMN_A>>, <<COLUMN_A, TIME_COLUMN>>, <<COLUMN_A, COLUMN_A>>,
                <<COLUMN_A, MISSING_COLUMN>>, <<>>},
     index_cut : {0, 1},
     a : {"whole", "cut", "absent"}]

\* the bytes of index.drd, of __time and of a in the chunk of a recipe
open_files(r) ==
    <<Let(index_drd([convention |-> "length", columns |-> r.columns,
                     dimensions |-> <<COLUMN_A>>, start |-> I64_ONE, end |-> I64_MAX,
                     trailing |-> <<>>]),
          LAMBDA bytes : SubSeq(bytes, 1, Len(bytes) - r.index_cut)),
      column_file("Long", FALSE, column_payload("Long", 1)),
      Let(column_file("Double", FALSE, column_payload("Double", 1)),
          LAMBDA bytes : IF r.a = "cut" THEN SubSeq(bytes, 1, 3) ELSE bytes)>>

\* the directory of a recipe: the three files one after another in 00000.smoosh
open_dir(r) ==
    Let(open_files(r), LAMBDA files :
    Let(<<0, Len(files[1]), Len(files[1]) + Len(files[2]),
          Len(files[1]) + Len(files[2]) + Len(files[3])>>, LAMBDA at :
        [version |-> version_bin(r.version),
         meta |-> Some(meta_smoosh(
             [empty |-> FALSE, header |-> r.header,
              lines |->
                  (CASE r.index_entry = "whole" -> <<ArchiveEntry(INDEX_DRD, 0, at[1], at[2])>>
                     [] r.index_entry = "exchanged" -> <<ArchiveEntry(INDEX_DRD, 0, at[2], at[1])>>
                     [] r.index_entry = "absent" -> <<>>)
                  \o <<ArchiveEntry(TIME_COLUMN, 0, at[2], at[3])>>
                  \o (IF r.a = "absent" THEN <<>>
                      ELSE <<ArchiveEntry(COLUMN_A, 0, at[3], at[4])>>)])),
         chunks |-> <<files[1] \o files[2] \o files[3]>>]))

\* open is called: nothing ran yet
Opening == [pc |-> "version", ran |-> <<>>, smoosh |-> None, metadata |-> None]

OpenInit ==
    /\ build \in Builds
    /\ src \in OpenRecipes
    /\ dir = open_dir(src)
    /\ seg = None /\ ret = None
    /\ calls = Opening
    /\ buf = <<>> /\ obj = None /\ out = None

\* the position after a step that gave r: the next step, or the return of r
stepped(c, step, r, next) ==
    [c EXCEPT !.pc = IF IsOk(r) THEN next ELSE "returned", !.ran = Append(@, step)]

\* 1. version.bin is read and validated
OpenVersion ==
    /\ calls.pc = "version"
    /\ Let(IF ~dir.version.some THEN Err("Io", 0) ELSE read_version(dir.version.v),
           LAMBDA r :
               /\ calls' = stepped(calls, "version", r, "smoosh")
               /\ seg' = IF IsOk(r) THEN seg ELSE r)
    /\ UNCHANGED <<build, src, buf, obj, out, dir, ret>>

\* 2. the smoosh archive is opened
OpenSmoosh ==
    /\ calls.pc = "smoosh"
    /\ Let(SmooshReader_open(dir),
           LAMBDA r :
               /\ calls' = [stepped(calls, "smoosh", r, "index") EXCEPT !.smoosh = r]
               /\ seg' = IF IsOk(r) THEN seg ELSE r)
    /\ UNCHANGED <<build, src, buf, obj, out, dir, ret>>

\* 3. index.drd is mapped and parsed
OpenIndex ==
    /\ calls.pc = "index"
    /\ Let(Try(map_file(calls.smoosh.val, INDEX_DRD),
               LAMBDA index_data : SegmentMetadata_from_bytes(index_data)),
           LAMBDA r :
               /\ calls' = [stepped(calls, "index", r, "schema") EXCEPT !.metadata = r]
               /\ seg' = IF IsOk(r) THEN seg ELSE r)
    /\ UNCHANGED <<build, src, buf, obj, out, dir, ret>>

\* 4. the schema is built and the segment returned
OpenSchema ==
    /\ calls.pc = "schema"
    /\ Let(build_schema(calls.smoosh.val, calls.metadata.val),
           LAMBDA r :
               /\ calls' = stepped(calls, "schema", r, "returned")
               /\ seg' = IF IsOk(r)
                         THEN Ok([smoosh |-> calls.smoosh.val,
                                  metadata |-> calls.metadata.val, schema |-> r.val])
                         ELSE r)
    /\ UNCHANGED <<build, src, buf, obj, out, dir, ret>>

\* smoosh().map_file(name) on the segment that open returned
OpenedMapFile(name) ==
    /\ IsOk(seg) /\ out = None
    /\ out' = Call("map_file", name, map_file(seg.val.smoosh, name))
    /\ UNCHANGED <<build, src, buf, obj, dir, seg, ret, calls>>

OpenNext ==
    \/ OpenVersion
    \/ OpenSmoosh
    \/ OpenIndex
    \/ OpenSchema
    \/ \E name \in {TIME_COLUMN, COLUMN_A, MISSING_COLUMN} : OpenedMapFile(name)

SpecOpen == OpenInit /\ [][OpenNext]_vars

----------------------------------------------------------------------------
(* Properties of the segment facade (Spec) *)

\* C1: open on a directory whose version.bin decodes (big-endian signed
\* 32-bit) to a value v other than 9 fails with InvalidVersion(v), and only
\* the value 9 lets open proceed.
C1_VersionGate ==
    /\ seg # None /\ src.version.present /\ src.version.cut = 0 =>
          IF src.version.value # 9
          THEN seg = Err("InvalidVersion", src.version.value)
          ELSE ~IsErr(seg, "InvalidVersion")
    /\ IsOk(seg) => src.version.present /\ src.version.cut = 0 /\ src.version.value = 9

\* version.bin = 00 00 00 08 in an otherwise well-formed segment: InvalidVersion(8)
C1_Witness ==
    /\ src.version = [present |-> TRUE, value |-> 8, cut |-> 0, extra |-> <<>>]
    /\ src.index = "length"
    /\ src.time = [value_type |-> "Long", has_multiple_values |-> FALSE, rows |-> 2]
    /\ src.a = [value_type |-> "String", has_multiple_values |-> FALSE, rows |-> 2]
    /\ seg = Err("InvalidVersion", 8)

\* C2: whenever read_columns(names) succeeds, the batch has one field per
\* requested name in the order of names, every column has the same length,
\* and that length equals num_rows(), also when __time is not requested.
C2_RowConsistency ==
    ret # None /\ ret.op = "read_columns" /\ IsOk(ret.res) =>
        /\ Len(ret.res.val.schema) = Len(ret.names)
        /\ \A i \in 1..Len(ret.names) : ret.res.val.schema[i].name = ret.names[i]
        /\ \A i \in 1..Len(ret.res.val.columns) :
               Len(ret.res.val.columns[i].values) = ret.res.val.num_rows
        /\ num_rows(seg.val) = Ok(ret.res.val.num_rows)

\* the description of the column that a name of the segment stands for
RecipeOf(name) == IF name = TIME_COLUMN THEN src.time ELSE src.a

Unsupported(c) == c.has_multiple_values \/ c.value_type = "Complex"

\* C5: materializing a column whose descriptor has hasMultipleValues = true
\* or valueType = COMPLEX fails with UnsupportedColumnType, for every column
\* name, __time included; no such column is ever decoded into a vector.
C5_UnsupportedRejected ==
    ret # None /\ ret.op = "read_columns" =>
        /\ Len(ret.names) > 0 /\ ret.names[1] \in {TIME_COLUMN, COLUMN_A}
              /\ Unsupported(RecipeOf(ret.names[1]))
           => ret.res = Err("UnsupportedColumnType", 0)
        /\ (\E i \in 1..Len(ret.names) :
               ret.names[i] \in {TIME_COLUMN, COLUMN_A} /\ Unsupported(RecipeOf(ret.names[i])))
           => ~IsOk(ret.res)

\* the logical type that a column of the segment is to be recorded with
LogicalType(name) ==
    IF name = TIME_COLUMN THEN "Timestamp"
    ELSE [String |-> "Utf8", Long |-> "Int64", Float |-> "Float32",
          Double |-> "Float64", Complex |-> "Binary"][RecipeOf(name).value_type]

\* C19: the type recorded for a column, in schema() built at open and in the
\* batch schema of read_columns, is timestamp(ms) for the name __time whatever
\* its descriptor, and otherwise Utf8, Int64, Float32, Float64, Binary for the
\* value types String, Long, Float, Double, Complex; a Complex column is
\* listed by schema() after open while read_columns on it fails with
\* UnsupportedColumnType.
C19_LogicalTypes ==
    /\ IsOk(seg) =>
          seg.val.schema = <<Field(TIME_COLUMN, LogicalType(TIME_COLUMN)),
                             Field(COLUMN_A, LogicalType(COLUMN_A))>>
    /\ ret # None /\ ret.op \in {"read_columns", "read_all"} /\ IsOk(ret.res) =>
          ret.res.val.schema =
              [i \in 1..Len(ret.names) |-> Field(ret.names[i], LogicalType(ret.names[i]))]
    /\ ret # None /\ ret.op = "read_columns" /\ src.a.value_type = "Complex"
          /\ ret.names \in {<<COLUMN_A>>, <<COLUMN_A, TIME_COLUMN>>, <<TIME_COLUMN, COLUMN_A>>}
       => ret.res = Err("UnsupportedColumnType", 0)

\* a Complex column is listed as Binary, a __time column described as Complex
\* as a timestamp, and reading the Complex column was refused
C19_Witness ==
    /\ src.a.value_type = "Complex" /\ src.time.value_type = "Complex"
    /\ IsOk(seg)
    /\ seg.val.schema = <<Field(TIME_COLUMN, "Timestamp"), Field(COLUMN_A, "Binary")>>
    /\ ret = Returned("read_columns", <<COLUMN_A>>, Err("UnsupportedColumnType", 0))

----------------------------------------------------------------------------
(* Properties of open step by step (SpecOpen) *)

\* the steps of open in their order
OpenSteps == <<"version", "smoosh", "index", "schema">>

\* the first step of open that a directory makes fail, 5 when none does
FirstFailing ==
    IF src.version.value # 9 \/ ~src.version.present THEN 1
    ELSE IF src.header.form # "well" THEN 2
    ELSE IF src.index_entry # "whole" \/ src.index_cut > 0 THEN 3
    ELSE IF \E i \in 1..Len(src.columns) :
                \/ src.columns[i] = MISSING_COLUMN
                \/ (src.columns[i] = COLUMN_A /\ src.a # "whole")
    THEN 4
    ELSE 5

\* C21: open runs the version check, the smoosh archive open, the index.drd
\* parse and the schema build in this order; it returns the error of the first
\* step that fails and runs no later step (a bad version marker with a
\* malformed meta.smoosh gives InvalidVersion); a segment exists only when all
\* four steps succeeded, and then every column name of its metadata resolves
\* to a logical file and has its one schema field, in index order.
C21_OpenOrder ==
    /\ calls.ran = SubSeq(OpenSteps, 1, Len(calls.ran))
    /\ calls.pc \in {"version", "smoosh", "index", "schema"} =>
          seg = None /\ calls.pc = OpenSteps[Len(calls.ran) + 1]
                     /\ Len(calls.ran) < FirstFailing
    /\ calls.pc = "returned" =>
          /\ Len(calls.ran) = Min(FirstFailing, 4)
          /\ seg.tag = (IF FirstFailing = 5 THEN "Ok" ELSE "Err")
          /\ FirstFailing = 1 /\ src.version.present =>
                seg = Err("InvalidVersion", src.version.value)
          /\ FirstFailing = 2 => seg = Err("InvalidSmooshMeta", 0)
    /\ IsOk(seg) =>
          /\ seg.val.metadata.columns = src.columns
          /\ Len(seg.val.schema) = Len(src.columns)
          /\ \A i \in 1..Len(src.columns) :
                /\ IsOk(map_file(seg.val.smoosh, src.columns[i]))
                /\ seg.val.schema[i].name = src.columns[i]
    /\ out # None /\ out.index \in {src.columns[i] : i \in 1..Len(src.columns)} =>
          IsOk(out.res)

----------------------------------------------------------------------------
(* Properties of the shared segment (SpecShared) *)

\* what a call returns when it runs alone on the segment
AloneResult(segment, c) ==
    CASE c.op \in {"read_columns", "read_all"} -> read_columns(segment, c.names)
      [] c.op = "num_rows" -> num_rows(segment)
      [] c.op = "schema" -> segment.schema
      [] c.op = "metadata" -> segment.metadata
      [] c.op = "map_file" -> map_file(segment.smoosh, c.names[1])

\* every call that has returned returned what it returns alone, and two calls
\* of read_columns with the same names returned equal batches
SharedResults ==
    /\ \A t \in Threads :
           calls[t].state = "done" => calls[t].res = AloneResult(seg.val, calls[t])
    /\ \A t, u \in Threads :
           /\ calls[t].state = "done" /\ calls[u].state = "done"
           /\ calls[t].op = "read_columns" /\ calls[u].op = "read_columns"
           /\ calls[t].names = calls[u].names
           => calls[t].res = calls[u].res

\* C20: once open has succeeded no operation (schema, metadata, num_rows,
\* read_columns, read_all, archive lookups) changes the segment (archive
\* entries, mappings, metadata, schema) or the directory; under every
\* interleaving of the calls of the threads that share the segment each call
\* returns what it returns alone, and two read_columns calls with the same
\* names return equal batches.
C20_SharedReads ==
    /\ [](IsOk(seg) => SharedResults)
    /\ [][IsOk(seg) => seg' = seg /\ dir' = dir]_vars

\* a read of both columns returned while the same read of the other thread
\* had taken its first column only
C20_Witness ==
    /\ calls["reader_1"].state = "done" /\ calls["reader_1"].op = "read_columns"
    /\ calls["reader_1"].names = <<TIME_COLUMN, COLUMN_A>>
    /\ IsOk(calls["reader_1"].res)
    /\ calls["reader_2"].state = "running" /\ calls["reader_2"].op = "read_columns"
    /\ calls["reader_2"].names = <<TIME_COLUMN, COLUMN_A>>
    /\ calls["reader_2"].i = 2

----------------------------------------------------------------------------
(* Properties of the string column (SpecString) and of index.drd (SpecMeta) *)

\* C3: read_string_column on a v0, v2 or v3 payload whose dictionary holds
\* object-prefixed strings returns, for every row i, the dictionary string
\* stored at index ids[i].
C3_ObjectDictionaryResolved ==
    /\ src.convention = "object"
    /\ \A i \in 1..Len(src.ids) : src.ids[i] < Len(src.dictionary)
    /\ out # None
    => out = Ok([i \in 1..Len(src.ids) |-> src.dictionary[src.ids[i] + 1]])

\* C4: SegmentMetadata::from_bytes over an index.drd whose two name lists hold
\* object-prefixed strings returns exactly those names in stored order and
\* the two big-endian i64 after the second list as the interval; trailing
\* bytes are ignored.
C4_ObjectNamesRead ==
    src.convention = "object" /\ out # None =>
        out = Ok([columns |-> src.columns, dimensions |-> src.dimensions,
                  interval_start_ms |-> src.start, interval_end_ms |-> src.end])

C18_UnknownMaskRefused ==
    src.version = 3 /\ src.flags # 0 /\ out # None => out.tag = "Err"

----------------------------------------------------------------------------
(* Properties of the codec layer (SpecCodec) *)

\* C8: decompress_block returns Ok(out) only when the length of out equals
\* the expected size, for every strategy, the pass-through ids 0xFE and 0xFF
\* included.
C8_ExactSizeEnforced == out.tag = "Ok" => Len(out.val) = src.expected

\* C9: the codec ids 0xFE and 0xFF hand the input bytes back unchanged for
\* every input; the ids 0x00 and 0x02 are recognised and answered with
\* UnsupportedCompression carrying that id; every id outside
\* {0x00, 0x01, 0x02, 0xFE, 0xFF} is rejected with UnsupportedCompression(id).
C9_CodecIds ==
    /\ obj # None =>
          IF src.id \in {0, 1, 2, 254, 255} THEN IsOk(obj)
          ELSE obj = Err("UnsupportedCompression", src.id)
    /\ out # None /\ src.id \in {254, 255} => out = Ok(buf)
    /\ out # None /\ src.id \in {0, 2} => out = Err("UnsupportedCompression", src.id)

\* a pass-through block of two bytes came back unchanged although none were expected
C9_Witness ==
    src.id = 254 /\ src.expected = 0 /\ buf = <<16, 65>> /\ out = Ok(<<16, 65>>)

----------------------------------------------------------------------------
(* Properties of the generic indexed container (SpecGI) *)

\* C10: a sequence of optional byte strings written under the length-prefix
\* convention (i32 length, -1 for null) is read back by from_bytes with len()
\* equal to the sequence length and get(i) equal to the i-th element, a null
\* element as None and an empty byte string as Some(empty).
C10_LengthPrefixRoundTrip ==
    src.convention = "length" =>
        /\ obj # None => IsOk(obj) /\ GenericIndexedV1_len(obj.val) = Len(src.elements)
        /\ out # None /\ out.op = "get" /\ out.index < Len(src.elements) =>
               out.res = Ok(src.elements[out.index + 1])

\* the element after a null one was read back
C10_Witness ==
    /\ src.convention = "length"
    /\ src.elements = <<Absent, Some(<<>>)>>
    /\ out = Call("get", 1, Ok(Some(<<>>)))

\* C11: on a parsed container, every element accessor (get, get_raw,
\* get_object_string, get_str) called with an index i >= len() returns the
\* InvalidData error, never a panic and never bytes; every index is such an
\* index on an empty container.
C11_IndexOutOfRange ==
    /\ IsOk(obj) /\ out # None
    /\ out.op \in {"get", "get_raw", "get_object_string", "get_str"}
    /\ ~UsizeLess(out.index, GenericIndexedV1_len(obj.val))
    => out.res = Err("InvalidData", 0)

\* get_raw(1) on a container of the one element "" was refused
C11_Witness ==
    /\ src.convention = "length" /\ src.elements = <<Some(<<>>)>>
    /\ out = Call("get_raw", 1, Err("InvalidData", 0))

\* C22: get_object_string(i) for i < len() returns InvalidData when the
\* element is shorter than 4 bytes or its first 4 bytes are not all zero,
\* None when nothing follows the 4-byte prefix, and otherwise the bytes after
\* the prefix up to the element's end offset decoded as UTF-8, InvalidData
\* when they are not valid UTF-8.
C22_ObjectString ==
    out # None /\ out.op = "get_object_string" /\ out.index < Len(src.elements) =>
        LET written == element_written(src, out.index + 1)
            after == SubSeq(written, 5, Len(written))
        IN out.res =
              IF Len(written) < 4 \/ \E k \in 1..4 : written[k] # 0
              THEN Err("InvalidData", 0)
              ELSE IF after = <<>> THEN Ok(Absent)
              ELSE IF \E k \in 1..Len(after) : after[k] > 127 THEN Err("InvalidData", 0)
              ELSE Ok(Some(after))

\* of the elements 00 00 00 00 and 00 00 00 00 61 the first was read as None
C22_Witness ==
    /\ src.convention = "object" /\ src.elements = <<Some(<<>>), Some(<<97>>)>>
    /\ out = Call("get_object_string", 0, Ok(Absent))

----------------------------------------------------------------------------
(* Properties of two containers in one buffer (SpecPair) *)

\* the sum of the lengths of the first n elements of a source as written,
\* which is the end offset written for element n
RECURSIVE written_up_to(_, _)
written_up_to(s, n) ==
    IF n = 0 THEN 0 ELSE written_up_to(s, n - 1) + Len(element_written(s, n))

\* C23: total_size() of a container of N elements is 10 + 4*N + offsets[N-1]
\* (10 when N = 0), the exact number of bytes the container occupies; of two
\* well-formed containers one after the other, parsing the buffer at offset
\* total_size() of the first yields the second.
C23_TotalSize ==
    /\ out # None =>
          /\ out.res = Ok(10 + 4 * Len(src.first.elements)
                             + written_up_to(src.first, Len(src.first.elements)))
          /\ out.res = Ok(Len(GIEncode(src.first)))
          /\ Len(src.first.elements) = 0 => out.res = Ok(10)
    /\ ret # None =>
          /\ IsOk(ret)
          /\ GenericIndexedV1_len(ret.val) = Len(src.second.elements)
          /\ Slice(buf, out.res.val, Len(buf)) = GIEncode(src.second)
    /\ calls # None =>
          calls.res = IF calls.index < Len(src.second.elements)
                      THEN Ok(element_written(src.second, calls.index + 1))
                      ELSE Err("InvalidData", 0)

\* after the elements "a" and null (27 bytes) the one element "a" of the
\* second container was found
C23_Witness ==
    /\ src.first.convention = "length" /\ src.first.elements = <<Some(<<97>>), Absent>>
    /\ src.second.convention = "length" /\ src.second.elements = <<Some(<<97>>)>>
    /\ out = Call("total_size", 0, Ok(27))
    /\ calls = Call("get_raw", 0, Ok(<<0, 0, 0, 1, 97>>))

----------------------------------------------------------------------------
(* Properties of the offset table (SpecOffsets) *)

\* end offset i of the table of a source, 0 before the first
OffsetWritten(i) == IF i = 0 THEN 0 ELSE src.offsets[i]

\* the offset-table invariant on a source: the offsets do not decrease and
\* the last one is the declared size of the values region
TableInvariant ==
    /\ \A i \in 1..Len(src.offsets) : OffsetWritten(i - 1) <= src.offsets[i]
    /\ OffsetWritten(Len(src.offsets)) = Len(OFFSET_VALUES) + src.excess

\* C25: every container from which the reader serves elements satisfies the
\* offset-table invariant: offsets are non-decreasing, element i is exactly the
\* bytes [offsets[i-1], offsets[i]) of the values area, and offsets[N-1] is
\* the values-region size declared by the header (total_bytes - 4*N); a
\* container violating this is rejected with a typed error, not served and
\* not crashed on.
C25_OffsetTableInvariant ==
    /\ obj # None => obj.tag \in {"Ok", "Err"}
    /\ out # None =>
          IF TableInvariant
          THEN out.op = "get_raw" /\ out.index < Len(src.offsets) =>
                   out.res = IF OffsetWritten(out.index + 1) > Len(OFFSET_VALUES)
                             THEN Err("InvalidData", 0)
                             ELSE Ok(SubSeq(OFFSET_VALUES, OffsetWritten(out.index) + 1,
                                            OffsetWritten(out.index + 1)))
          ELSE out.res.tag = "Err"

----------------------------------------------------------------------------
(* Properties of the generic indexed header (SpecHeader) *)

\* C12: GenericIndexedV1::from_bytes returns Ok only for an input whose first
\* byte is 1; a non-empty input with another first byte v fails with
\* InvalidGenericIndexedVersion(v), also when it is shorter than the 10-byte
\* header; an empty input and a version-1 input of fewer than 10 bytes fail
\* with InvalidData.
C12_VersionGate ==
    obj # None =>
        /\ IsOk(obj) => buf # <<>> /\ buf[1] = 1
        /\ buf # <<>> /\ buf[1] # 1 => obj = Err("InvalidGenericIndexedVersion", buf[1])
        /\ buf = <<>> \/ (buf[1] = 1 /\ Len(buf) < 10) => obj = Err("InvalidData", 0)

\* the single byte 0x02 was refused for its version
C12_Witness == buf = <<2>> /\ obj = Err("InvalidGenericIndexedVersion", 2)

----------------------------------------------------------------------------
(* Properties of the packed variable-width integers (SpecVSize) *)

\* C13: u32 values each below 256^W, written as a packed stream of width W in
\* {1, 2, 3, 4} (version 0, width W, size = count * W, big-endian values), are
\* read back with len() = count, get(i) = the i-th value and to_vec() = the
\* sequence; a header of width 0 or of width 5 and more is refused by
\* from_bytes with InvalidData.
C13_PackedRoundTrip ==
    /\ src.num_bytes \in 1..4 =>
          /\ obj # None => IsOk(obj) /\ VSizeColumnarInts_len(obj.val) = Len(src.values)
          /\ out # None /\ out.op = "get" /\ out.index < Len(src.values) =>
                 out.res = Ok(src.values[out.index + 1])
          /\ out # None /\ out.op = "to_vec" => out.res = Ok(src.values)
    /\ src.num_bytes \notin 1..4 /\ obj # None => obj = Err("InvalidData", 0)

\* three values of width 3, the largest one first, came back from to_vec
C13_Witness ==
    /\ src.num_bytes = 3 /\ src.values = <<16777215, 0, 1>>
    /\ out = Call("to_vec", 0, Ok(<<16777215, 0, 1>>))

----------------------------------------------------------------------------
(* Properties of the parsers on a cut input (SpecCut) *)

\* the number of elements that the whole input of a reader holds
WholeCount ==
    IF src.parser = "generic_indexed" THEN Len(src.input.elements)
    ELSE Len(src.input.values)

\* C14: on a valid input with its last byte removed, the parse-and-decode
\* sequence of every parser ends in an Err value: no step panics (no index
\* outside the buffer), the step that reaches the missing byte (the parse, the
\* access to the last element, to_vec, decompress_all, parse_column_header,
\* SegmentMetadata::from_bytes, read_string_column) returns Err.
C14_TruncationRefused ==
    /\ obj # Panic
    /\ IsOk(obj) /\ src.parser \in {"generic_indexed", "vsize"} => WholeCount > 0
    /\ out # None =>
          /\ out.res # Panic
          /\ src.parser \in {"generic_indexed", "vsize"} /\ out.op # "to_vec"
                 /\ out.index = WholeCount - 1
             => out.res.tag = "Err"
          /\ out.op \in {"to_vec", "decompress_all", "parse_column_header",
                          "from_bytes", "read_string_column"}
             => out.res.tag = "Err"

----------------------------------------------------------------------------
(* Properties of the block loop (SpecLoop) *)

\* the number of elements produced before block k (counted from 1)
RECURSIVE produced_before(_, _)
produced_before(taken, k) ==
    IF k <= 1 THEN 0 ELSE produced_before(taken, k - 1) + taken[k - 1]

\* the result is that of decompress_all as one call
LoopAgrees == out # None => out = decompress_blocks(src.flavor, obj.val)

\* C30: in decompress_all of every flavor, with the total count T and the
\* stride S non-negative, the number of elements produced never exceeds T at
\* any point of the block loop, so T - produced never underflows; block k
\* contributes min(S, T - produced) elements, the blocks are consumed in index
\* order, a block visited after T elements were produced contributes none,
\* and an accepted result never has more than T elements.
C30_BlockLoop ==
    /\ calls # None =>
           /\ Len(calls.result) <= src.total
           /\ Len(calls.taken) = calls.block_idx
           /\ \A k \in 1..Len(calls.taken) :
                  /\ produced_before(calls.taken, k) <= src.total
                  /\ calls.taken[k]
                         = Min(src.stride, src.total - produced_before(calls.taken, k))
                  /\ produced_before(calls.taken, k) = src.total => calls.taken[k] = 0
           /\ calls.result
                  = Concat([k \in 1..Len(calls.taken) |->
                               [i \in 1..calls.taken[k] |-> loop_value(src.flavor, k)]])
    /\ out # None =>
           /\ out = Panic => src.flavor = "ints" /\ calls # None
           /\ IsOk(out) => Len(out.val) <= src.total /\ out.val = calls.result
    /\ LoopAgrees

\* three blocks over a total of three with stride two: the blocks give two,
\* one and no elements, and the result is accepted
C30_Witness ==
    /\ src.kind = "loop" /\ src.total = 3 /\ src.stride = 2 /\ src.blocks = 3
    /\ calls # None /\ calls.taken = <<2, 1, 0>>
    /\ IsOk(out) /\ Len(out.val) = 3

----------------------------------------------------------------------------
(* Properties of the parsers on a negative field (SpecNegative) *)

\* C29: a header field read as a signed 32-bit integer whose value is
\* negative (generic indexed element count, block total count or stride,
\* packed-int buffer size, column header JSON length) results in the
\* InvalidData error; it is never taken for a huge unsigned size and never
\* causes an arithmetic overflow, an oversized allocation or a panic.
C29_NegativeRefused ==
    /\ obj # None => obj = Err("InvalidData", 0)
    /\ out # None => out.res = Err("InvalidData", 0)

----------------------------------------------------------------------------
(* Properties of the smoosh archive (SpecSmoosh) *)

\* the entry that meta.smoosh gives a name: its last entry line of that name
EntryLinesOf(name) ==
    {i \in 1..Len(src.lines) : src.lines[i].form = "entry" /\ src.lines[i].name = name}

HasEntry(name) == EntryLinesOf(name) # {}

EntryOf(name) ==
    src.lines[CHOOSE i \in EntryLinesOf(name) : \A j \in EntryLinesOf(name) : j <= i]

\* chunk c of the directory
ChunkFile(c) == <<CHUNK_0, CHUNK_1>>[c + 1]

\* C15: for an archive entry (name, chunk c, start s, end e) with c below the
\* number of mapped chunks and s <= e <= size of chunk c, map_file(name)
\* returns exactly the e - s bytes of chunk c at the positions [s, e).
C15_MapFileReturnsRange ==
    out # None /\ HasEntry(out.index) =>
        LET entry == EntryOf(out.index)
        IN /\ entry.chunk_number < src.header.num_chunks
           /\ entry.start_offset <= entry.end_offset
           /\ entry.end_offset <= Len(ChunkFile(entry.chunk_number))
           => /\ out.res = Ok(SubSeq(ChunkFile(entry.chunk_number),
                                     entry.start_offset + 1, entry.end_offset))
              /\ Len(out.res.val) = entry.end_offset - entry.start_offset

\* the entry foo,0,10,17 over the chunk XXXXXXXXXXHELLO!! gave HELLO!!
C15_Witness ==
    /\ ~src.empty /\ src.header.text = <<118, 49, 44, 50, 49, 52, 55, 52, 56, 51, 54, 52, 55, 44, 49>>
    /\ src.lines = <<ArchiveEntry(FOO, 0, 10, 17)>>
    /\ out = Call("map_file", FOO, Ok(<<72, 69, 76, 76, 79, 33, 33>>))

\* C16: map_file(name) fails with LogicalFileNotFound(name) when no entry has
\* the name, and with InvalidSmooshMeta when the entry's chunk is not mapped or
\* its end lies beyond the chunk; it never panics, and the bytes it returns
\* are those of the entry's range.
C16_MapFileErrors ==
    out # None =>
        /\ out.res # Panic
        /\ ~HasEntry(out.index) => out.res = ErrName("LogicalFileNotFound", out.index)
        /\ HasEntry(out.index)
              /\ (\/ EntryOf(out.index).chunk_number >= src.header.num_chunks
                  \/ EntryOf(out.index).end_offset
                         > Len(ChunkFile(EntryOf(out.index).chunk_number)))
           => out.res = Err("InvalidSmooshMeta", 0)
        /\ IsOk(out.res) =>
               out.res.val = SubSeq(ChunkFile(EntryOf(out.index).chunk_number),
                                    EntryOf(out.index).start_offset + 1,
                                    EntryOf(out.index).end_offset)

\* a meta.smoosh that open must refuse: an empty file, a first line with fewer
\* than 3 fields, without v1 or with a chunk count that is no number, an entry
\* line with fewer than 4 fields or with a chunk, start or end that is no number
MalformedMeta ==
    \/ src.empty
    \/ src.header.form # "well"
    \/ \E i \in 1..Len(src.lines) : src.lines[i].form \in {"short", "number"}

\* C17: SmooshReader::open returns InvalidSmooshMeta, and does not panic, on
\* every malformed meta.smoosh; blank lines are skipped without error: a
\* meta.smoosh of entry lines and blank lines opens with exactly the names of
\* its entry lines.
C17_MalformedMetaRefused ==
    obj # None =>
        /\ MalformedMeta => obj = Err("InvalidSmooshMeta", 0)
        /\ ~MalformedMeta /\ src.header.num_chunks \in 0..2 =>
               /\ IsOk(obj)
               /\ DOMAIN obj.val.entries =
                      {src.lines[i].name :
                          i \in {j \in 1..Len(src.lines) : src.lines[j].form = "entry"}}

\* a blank line was passed over and the line a,0,1 after it was refused
C17_Witness ==
    /\ ~src.empty /\ src.header.form = "well" /\ src.header.num_chunks = 1
    /\ Len(src.lines) = 2
    /\ src.lines[1] = [form |-> "blank", text |-> <<>>]
    /\ src.lines[2].form = "short"
    /\ obj = Err("InvalidSmooshMeta", 0)

----------------------------------------------------------------------------
(* Properties of the archive entries (SpecEntries) *)

\* an entry lies in a chunk that the reader mapped
InMappedChunk(smoosh, entry) ==
    /\ entry.end_offset >= entry.start_offset
    /\ entry.chunk_number < Len(smoosh.mmaps)
    /\ entry.end_offset <= Len(smoosh.mmaps[entry.chunk_number + 1])

\* C26: every entry held by a successfully opened SmooshReader, as entries()
\* and entry() show it, has end >= start, names a chunk that was mapped and has
\* end <= size of that chunk; an index line violating this never leads to a
\* panic in size() or map_file.
C26_EntriesInBounds ==
    /\ IsOk(obj) => \A name \in DOMAIN obj.val.entries :
                        InMappedChunk(obj.val, obj.val.entries[name])
    /\ ret # None /\ ret.res.some => InMappedChunk(obj.val, ret.res.v)
    /\ calls # None => calls.res # Panic /\ calls.res.val >= 0
    /\ out # None => out.res # Panic

----------------------------------------------------------------------------
(* Properties of the block set headers (SpecDispatch) *)

\* the reader holds the codec and the block container written by the source
ReaderOf(codec_name) ==
    /\ IsOk(obj)
    /\ obj.val.compression = codec_name
    /\ obj.val.blocks.data = dispatch_blocks(src)
    /\ GenericIndexedV1_len(obj.val.blocks) = (src.n + 1) \div 2

\* what the codec byte of a source makes of from_bytes
ByCodecByte ==
    CASE src.codec = 0 -> ReaderOf("Lzf")
      [] src.codec = 1 -> ReaderOf("Lz4")
      [] src.codec = 2 -> ReaderOf("Zstd")
      [] src.codec = 255 -> ReaderOf("Uncompressed")
      [] src.codec = 3 -> obj = Err("UnsupportedCompression", 3)

\* C24: block headers are dispatched on the version byte.  Longs: version 1
\* selects the implied legacy codec with the block container at offset 9,
\* version 2 takes the codec id from byte 9 with the container at offset 10.
\* Doubles and floats accept only version 2 (codec at byte 9, container at
\* 10).  Ints accept only version 2, with the width at byte 9 restricted to
\* 1..4, the codec at byte 10 and the container at 11.  Every other version
\* byte, and an int width of 0 or above 4, is an InvalidData error.
C24_HeaderDispatch ==
    /\ obj # None =>
          CASE src.flavor = "longs" /\ src.version = 1 -> ReaderOf("Lzf")
            [] src.flavor = "longs" /\ src.version = 2 -> ByCodecByte
            [] src.flavor \in {"doubles", "floats"} /\ src.version = 2 -> ByCodecByte
            [] src.flavor = "ints" /\ src.version = 2 /\ src.num_bytes \in 1..4 ->
                   ByCodecByte /\ (IsOk(obj) => obj.val.num_bytes = src.num_bytes)
            [] OTHER -> obj = Err("InvalidData", 0)
    /\ out # None /\ src.version = 2 /\ src.codec \in {1, 255} =>
          out = Ok(dispatch_values(src))

\* a version-1 longs header was read with the legacy codec and its 2 blocks
C24_Witness ==
    /\ src.flavor = "longs" /\ src.version = 1 /\ src.n = 3
    /\ IsOk(obj) /\ obj.val.compression = "Lzf"
    /\ GenericIndexedV1_len(obj.val.blocks) = 2

\* the codec of a source is not supported: the codec id 0 or 2, or the legacy
\* codec of version-1 longs
UnsupportedCodec ==
    \/ src.flavor = "longs" /\ src.version = 1
    \/ src.version = 2 /\ src.codec \in {0, 2}

\* C27: parsing and decoding a block set whose codec is not supported (codec
\* id 0 or 2, or the legacy codec implied by version-1 longs) fails with
\* UnsupportedCompression whatever the declared total and the number of
\* blocks, a block set of zero blocks included; it never returns Ok with a
\* decoded vector.
C27_UnsupportedCodecRefused ==
    UnsupportedCodec =>
        /\ obj # None /\ ~IsOk(obj) =>
               obj.tag = "Err" /\ obj.kind \in {"UnsupportedCompression", "InvalidData"}
        /\ out # None =>
               out = Err("UnsupportedCompression",
                         IF src.version = 1 THEN 0 ELSE src.codec)

----------------------------------------------------------------------------
(* Properties of the compressed block sets (SpecBlocks) *)

\* C6: i64 values written as a version-2 compressed longs block set, for any
\* stride and any supported codec (LZ4, uncompressed, none), are read back by
\* from_bytes then decompress_all as exactly the original sequence, the values
\* i64::MIN, i64::MAX and -1 and a shorter last block included.
C6_LongsRoundTrip ==
    /\ src.flavor = "longs" /\ src.version = 2
    /\ src.codec \in {1, 254, 255} /\ src.dropped = 0
    => /\ obj # None => IsOk(obj)
       /\ out # None => out = Ok(src.values)

\* the extreme values came back from an LZ4 block set with a short last block
C6_Witness ==
    /\ src.flavor = "longs" /\ src.version = 2 /\ src.codec = 1 /\ src.dropped = 0
    /\ src.stride = 2
    /\ src.values = <<I64_MINUS_ONE, I64_MAX, I64_MIN>>
    /\ out = Ok(<<I64_MINUS_ONE, I64_MAX, I64_MIN>>)

\* C7: whenever decompress_all returns Ok, of any of the four flavors, the
\* vector has exactly the total element count T declared in the header.
C7_ExactCount == IsOk(obj) /\ out.tag = "Ok" => Len(out.val) = obj.val.total_size

====
